---- MODULE Spec2Model ----
(***************************************************************************)
(* Model of the screenshot service: the Bot wrapper around a headless      *)
(* browser (Puppeteer and Playwright variants), the POST /:url route that  *)
(* drives one Bot per request, and the URL normalisation of the client     *)
(* page.  Strings are sequences of character codes.  Every `await` of the  *)
(* source is a point where other tasks and browser events may interleave;  *)
(* the code between two awaits is one atomic step.                         *)
(***************************************************************************)
EXTENDS Integers, Sequences, FiniteSets, TLC

\* ------------------------------------------------------------------ bounds
MaxTasks == 2      \* concurrent tasks (requests, or callers of one Bot)
MaxLaunch == 2     \* browser launches issued per Bot
MaxCalls == 4      \* Bot method calls issued by the callers of the Bot driver
MaxConcCalls == 3  \* the same, when two callers share the Bot
MaxRequests == 1   \* requests the server receives
MaxFilterCalls == 3   \* Bot method calls when the page issues requests
MaxPageRequests == 1  \* requests the pages issue
MaxInFlight == 2      \* requests the server handles at the same time
MaxSharedCalls == 4   \* Bot method calls of two pipelines on a shared Bot

Null == 0          \* the null handle of #browser / #page

Tasks == 1..MaxTasks
Bots == 1..MaxTasks
ProcIds == 1..(MaxTasks * MaxLaunch)

\* ----------------------------------------------------------------- strings
HttpPrefix == <<104, 116, 116, 112, 58, 47, 47>>            \* "http://"
HttpsPrefix == <<104, 116, 116, 112, 115, 58, 47, 47>>      \* "https://"
HostAB == <<97, 46, 98>>                                     \* "a.b"
Whitespace == {9, 10, 11, 12, 13, 32}

StartsWith(s, p) == Len(s) >= Len(p) /\ SubSeq(s, 1, Len(p)) = p

HasScheme(s) == StartsWith(s, HttpPrefix) \/ StartsWith(s, HttpsPrefix)

RECURSIVE TrimStart(_)
TrimStart(s) ==
  IF Len(s) > 0 /\ s[1] \in Whitespace THEN TrimStart(Tail(s)) ELSE s

RECURSIVE TrimEnd(_)
TrimEnd(s) ==
  IF Len(s) > 0 /\ s[Len(s)] \in Whitespace
  THEN TrimEnd(SubSeq(s, 1, Len(s) - 1)) ELSE s

\* String.prototype.trim
Trim(s) == TrimEnd(TrimStart(s))

\* ------------------------------------------------------------------ base64
\* The base64 alphabet: A-Z a-z 0-9 + /
B64Chars ==
  [i \in 1..64 |->
     IF i <= 26 THEN 64 + i
     ELSE IF i <= 52 THEN 70 + i
     ELSE IF i <= 62 THEN i - 5
     ELSE IF i = 63 THEN 43 ELSE 47]

B64Pad == <<61>>                                              \* "="

B64Alphabet == {B64Chars[i] : i \in 1..64}

Enc(v) == B64Chars[v + 1]

Dec(c) == (CHOOSE i \in 1..64 : B64Chars[i] = c) - 1

\* btoa: three bytes become four characters; a tail of one or two bytes is
\* padded with "=".
RECURSIVE btoa(_)
btoa(s) ==
  IF Len(s) = 0 THEN <<>>
  ELSE IF Len(s) = 1 THEN
    <<Enc(s[1] \div 4), Enc((s[1] % 4) * 16)>> \o B64Pad \o B64Pad
  ELSE IF Len(s) = 2 THEN
    <<Enc(s[1] \div 4), Enc((s[1] % 4) * 16 + s[2] \div 16),
      Enc((s[2] % 16) * 4)>> \o B64Pad
  ELSE
    <<Enc(s[1] \div 4), Enc((s[1] % 4) * 16 + s[2] \div 16),
      Enc((s[2] % 16) * 4 + s[3] \div 64), Enc(s[3] % 64)>>
    \o btoa(SubSeq(s, 4, Len(s)))

RECURSIVE DecodeGroups(_)
DecodeGroups(s) ==
  IF Len(s) < 2 THEN <<>>
  ELSE IF Len(s) = 2 THEN
    <<Dec(s[1]) * 4 + Dec(s[2]) \div 16>>
  ELSE IF Len(s) = 3 THEN
    <<Dec(s[1]) * 4 + Dec(s[2]) \div 16,
      (Dec(s[2]) % 16) * 16 + Dec(s[3]) \div 4>>
  ELSE
    <<Dec(s[1]) * 4 + Dec(s[2]) \div 16,
      (Dec(s[2]) % 16) * 16 + Dec(s[3]) \div 4,
      (Dec(s[3]) % 4) * 64 + Dec(s[4])>>
    \o DecodeGroups(SubSeq(s, 5, Len(s)))

IsWs(c) == c \in Whitespace

NotWs(c) == ~IsWs(c)

StripPadding(s) ==
  IF Len(s) > 0 /\ Len(s) % 4 = 0 /\ s[Len(s)] = B64Pad[1]
  THEN IF s[Len(s) - 1] = B64Pad[1]
       THEN SubSeq(s, 1, Len(s) - 2)
       ELSE SubSeq(s, 1, Len(s) - 1)
  ELSE s

\* atob (forgiving base64 decode): whitespace is dropped, up to two trailing
\* "=" are dropped when the length is a multiple of four, and the call throws
\* when a character is outside the alphabet or the length is 1 mod 4.
atob(p) ==
  LET s == StripPadding(SelectSeq(p, NotWs)) IN
  IF Len(s) % 4 = 1 \/ (\E i \in 1..Len(s) : s[i] \notin B64Alphabet)
  THEN [ok |-> FALSE, val |-> <<>>]
  ELSE [ok |-> TRUE, val |-> DecodeGroups(s)]

\* The client page's normalisation of the typed URL before it is encoded.
fetchUrl_NoPrefix(urlWebsite) == urlWebsite

fetchUrl(urlWebsite) ==
  IF ~StartsWith(urlWebsite, HttpPrefix) /\ ~StartsWith(urlWebsite, HttpsPrefix)
  THEN HttpPrefix \o urlWebsite
  ELSE urlWebsite

\* ------------------------------------------------------------------- state
VARIABLES
  variant,                \* per Bot: its class, "puppeteer" or "playwright"
  options,                \* per Bot: the merged #options
  browser,                \* per Bot: #browser (a process id, or Null)
  page,                   \* per Bot: #page (the page of that process, or Null)
  isInterceptionEnabled,  \* per Bot: #isInterceptionEnabled / #isRoutingEnabled
  procs,                  \* the browser processes, as the library holds them
  nlaunch,                \* per Bot: launches issued so far
  botOf,                  \* per task: the Bot it calls
  frame,                  \* per task: where its pending Bot call is suspended
  result,                 \* per task: outcome of its last completed Bot call
  req,                    \* per request: the POST /:url handler's locals
  resp,                   \* per request: the responses sent with res.json
  log,                    \* per request: the calls the handler made, in order
  ncalls,                 \* per task: Bot calls issued by the Bot driver
  budget,                 \* the number of calls the Bot driver may issue
  scenario,               \* the call both Bot classes are driven through
  dom,                    \* the client page: what its elements show
  captures                \* the client page: its getScreenshot invocations

botVars == <<browser, page, isInterceptionEnabled, procs>>
callVars == <<frame, result>>
clientVars == <<dom, captures>>

\* What no step of the server and of the Bot changes.
config == <<variant, options, botOf, budget, scenario, clientVars>>
routerVars == <<req, resp, log>>
vars == <<variant, options, browser, page, isInterceptionEnabled, procs,
          nlaunch, botOf, frame, result, req, resp, log, ncalls, budget,
          scenario, dom, captures>>

\* The two Bot classes of the repository.
Variants == {"puppeteer", "playwright"}

\* The value of a call that returns nothing.
NoValue == <<>>

\* An options object with no key given: a record of the keys given.
NoOptions == [k \in {} |-> TRUE]

\* No call is scripted: the driver is free in what it calls and the library
\* in how it answers.
NoScenario ==
  [k |-> 0, op |-> "none", wait |-> FALSE, fail |-> "none", disc |-> "none",
   window |-> FALSE]

NoResult == [op |-> "none", out |-> "none", val |-> NoValue]

NoProc ==
  [st |-> "none", handler |-> Null, intercept |-> FALSE, listener |-> FALSE,
   url |-> <<>>, loaded |-> FALSE, net |-> <<>>]

IdleFrame ==
  [pc |-> "idle", recv |-> Null, onClose |-> "return", mine |-> Null,
   entry |-> <<Null, Null, FALSE>>, arg |-> "none", closes |-> 0,
   teardownErr |-> FALSE, op |-> "none", prevOp |-> "none",
   url |-> <<>>]

\* The slot of the k-th launch of Bot b.
Slot(b, k) == (b - 1) * MaxLaunch + k

Owner(p) == ((p - 1) \div MaxLaunch) + 1

Running(pr, p) == p # Null /\ pr[p].st = "running"

\* page.isClosed(): the page of a process that is gone is closed.
isClosed(pr, pg) == ~Running(pr, pg)

\* One atomic step of task t on its Bot ends with these values.
Go(t, br, pg, fl, pr, fr, res) ==
  /\ browser' = [browser EXCEPT ![botOf[t]] = br]
  /\ page' = [page EXCEPT ![botOf[t]] = pg]
  /\ isInterceptionEnabled' = [isInterceptionEnabled EXCEPT ![botOf[t]] = fl]
  /\ procs' = pr
  /\ frame' = [frame EXCEPT ![t] = fr]
  /\ result' = [result EXCEPT ![t] = res]

\* The async method `op` settles: it returns (out = "ok") or throws.
Return(t, br, pg, fl, pr, fr, op, out, val) ==
  Go(t, br, pg, fl, pr, [fr EXCEPT !.pc = "returned", !.recv = Null],
     [op |-> op, out |-> out, val |-> val])

\* --------------------------------------------------------- Bot.closeBrowser
\* closeBrowser settles.  Called from the catch block of startBrowser, the
\* pending error of startBrowser is thrown next.
closeBrowserDone_Throws(t, br, pg, fl, pr, fr) ==
  IF fr.onClose = "rethrow" \/ fr.teardownErr
  THEN Return(t, br, pg, fl, pr, fr,
              IF fr.onClose = "rethrow" THEN "startBrowser" ELSE "closeBrowser",
              "threw", NoValue)
  ELSE Return(t, br, pg, fl, pr, fr, "closeBrowser", "ok", NoValue)

closeBrowserDone(t, br, pg, fl, pr, fr) ==
  IF fr.onClose = "rethrow"
  THEN Return(t, br, pg, fl, pr, fr, "startBrowser", "threw", NoValue)
  ELSE Return(t, br, pg, fl, pr, fr, "closeBrowser", "ok", NoValue)

\* if (this.#browser) { ... await this.#browser.close() ... }
closeBrowserTail_SkipCloseOnError(t, br, pg, fl, pr, fr) ==
  IF br # Null /\ ~fr.teardownErr
  THEN Go(t, br, pg, fl, pr,
          [fr EXCEPT !.pc = "c_close", !.recv = br, !.closes = fr.closes + 1],
          result[t])
  ELSE closeBrowserDone(t, br, pg, fl, pr, fr)

closeBrowserTail(t, br, pg, fl, pr, fr) ==
  IF br # Null
  THEN Go(t, br, pg, fl, pr,
          [fr EXCEPT !.pc = "c_close", !.recv = br, !.closes = fr.closes + 1],
          result[t])
  ELSE closeBrowserDone(t, br, pg, fl, pr, fr)

closeBrowserHead_NoRemoval(t, br, pg, fl, pr, fr) ==
  closeBrowserTail(t, br, pg, FALSE, pr, fr)

\* The synchronous head of closeBrowser, up to its first await.  Puppeteer:
\* #disableResourceBlocking removes the request listener, then awaits
\* setRequestInterception(false).  Playwright: #removeResourceBlocking awaits
\* page.unroute, unless the page is already closed.
closeBrowserHead(t, br, pg, fl, pr, fr) ==
  IF variant[botOf[t]] = "puppeteer"
  THEN IF fl
       THEN IF pg # Null
            THEN Go(t, br, pg, fl, [pr EXCEPT ![pg].listener = FALSE],
                    [fr EXCEPT !.pc = "d_sri", !.recv = pg], result[t])
            ELSE closeBrowserTail(t, br, pg, FALSE, pr, fr)
       ELSE closeBrowserTail(t, br, pg, fl, pr, fr)
  ELSE IF fl /\ pg # Null
       THEN IF ~isClosed(pr, pg)
            THEN Go(t, br, pg, fl, pr,
                    [fr EXCEPT !.pc = "d_unroute", !.recv = pg], result[t])
            ELSE closeBrowserTail(t, br, pg, FALSE, pr, fr)
       ELSE closeBrowserTail(t, br, pg, FALSE, pr, fr)

\* A call of closeBrowser by task t.
closeBrowser(t) ==
  closeBrowserHead(t, browser[botOf[t]], page[botOf[t]],
                   isInterceptionEnabled[botOf[t]], procs,
                   [frame[t] EXCEPT !.onClose = "return", !.closes = 0,
                                    !.teardownErr = FALSE,
                                    !.op = "closeBrowser",
                                    !.prevOp = result[t].op,
                                    !.entry = <<browser[botOf[t]], page[botOf[t]],
                                                isInterceptionEnabled[botOf[t]]>>])

\* await this.#page.setRequestInterception(false) settles (Puppeteer).
disableResourceBlocking_sri(t) ==
  /\ frame[t].pc = "d_sri"
  /\ \E ok \in BOOLEAN :
       /\ ok => Running(procs, frame[t].recv)
       /\ closeBrowserTail(t, browser[botOf[t]], page[botOf[t]], FALSE,
            IF ok THEN [procs EXCEPT ![frame[t].recv].intercept = FALSE]
                  ELSE procs,
            [frame[t] EXCEPT !.teardownErr = ~ok])
  /\ UNCHANGED <<config, nlaunch, routerVars, ncalls>>

\* await this.#page.unroute(...) settles (Playwright).
removeResourceBlocking_unroute(t) ==
  /\ frame[t].pc = "d_unroute"
  /\ \E ok \in BOOLEAN :
       /\ ok => Running(procs, frame[t].recv)
       /\ closeBrowserTail(t, browser[botOf[t]], page[botOf[t]], FALSE,
            IF ok THEN [procs EXCEPT ![frame[t].recv].listener = FALSE]
                  ELSE procs,
            [frame[t] EXCEPT !.teardownErr = ~ok])
  /\ UNCHANGED <<config, nlaunch, routerVars, ncalls>>

\* The process after browser.close() has settled: the library ends the
\* process whether close() resolved or rejected.
Closed(pr, p) ==
  IF pr[p].st = "running" THEN [pr EXCEPT ![p].st = "closed"] ELSE pr

\* await this.#browser.close() settles; the finally block clears the handles.
closeBrowser_close_Rethrow(t) ==
  /\ frame[t].pc = "c_close"
  /\ \E ok \in BOOLEAN :
       closeBrowserDone_Throws(t, Null, Null, FALSE, Closed(procs, frame[t].recv),
         [frame[t] EXCEPT !.teardownErr = ~ok])
  /\ UNCHANGED <<config, nlaunch, routerVars, ncalls>>

closeBrowser_close_KeepOnError(t) ==
  /\ frame[t].pc = "c_close"
  /\ \E ok \in BOOLEAN :
       IF ok
       THEN closeBrowserDone(t, Null, Null, FALSE, Closed(procs, frame[t].recv),
                             frame[t])
       ELSE closeBrowserDone(t, browser[botOf[t]], page[botOf[t]],
                             isInterceptionEnabled[botOf[t]],
                             Closed(procs, frame[t].recv),
                             [frame[t] EXCEPT !.teardownErr = TRUE])
  /\ UNCHANGED <<config, nlaunch, routerVars, ncalls>>

closeBrowser_close_KeepPage(t) ==
  /\ frame[t].pc = "c_close"
  /\ \E ok \in BOOLEAN :
       closeBrowserDone(t, Null, page[botOf[t]], FALSE,
         Closed(procs, frame[t].recv),
         [frame[t] EXCEPT !.teardownErr = frame[t].teardownErr \/ ~ok])
  /\ UNCHANGED <<config, nlaunch, routerVars, ncalls>>

closeBrowser_close(t) ==
  /\ frame[t].pc = "c_close"
  /\ \E ok \in BOOLEAN :
       closeBrowserDone(t, Null, Null, FALSE, Closed(procs, frame[t].recv),
         [frame[t] EXCEPT !.teardownErr = frame[t].teardownErr \/ ~ok])
  /\ UNCHANGED <<config, nlaunch, routerVars, ncalls>>

\* --------------------------------------------------------- Bot.startBrowser
\* startBrowser returns normally.
startBrowserOk(t, br, pg, fl, pr, fr) ==
  Return(t, br, pg, fl, pr, fr, "startBrowser", "ok", NoValue)

\* catch (error) { await this.closeBrowser(); throw error; }
startBrowserCatch_NoCleanup(t, br, pg, fl, pr, fr) ==
  Return(t, br, pg, fl, pr, fr, "startBrowser", "threw", NoValue)

startBrowserCatch(t, br, pg, fl, pr, fr) ==
  closeBrowserHead(t, br, pg, fl, pr, [fr EXCEPT !.onClose = "rethrow"])

\* #enableResourceBlocking / #setupResourceBlocking up to its await.
enableResourceBlocking(t, br, pg, fl, pr, fr) ==
  IF pg = Null \/ fl
  THEN startBrowserOk(t, br, pg, fl, pr, fr)
  ELSE Go(t, br, pg, fl, pr,
          [fr EXCEPT !.pc = IF variant[botOf[t]] = "puppeteer" THEN "e_sri"
                                                         ELSE "e_route",
                     !.recv = pg],
          result[t])

\* if (this.#options.optimizeLoad) await this.#enableResourceBlocking();
startBrowserBlocking(t, br, pg, fl, pr, fr) ==
  IF options[botOf[t]].optimizeLoad
  THEN enableResourceBlocking(t, br, pg, fl, pr, fr)
  ELSE startBrowserOk(t, br, pg, fl, pr, fr)

\* The guard of startBrowser.
alreadyStarted_Never(b) == FALSE

alreadyStarted(b) == browser[b] # Null

\* A call of startBrowser by task t, up to the await of launch().
startBrowser(t) ==
  LET b == botOf[t]
      fr == [frame[t] EXCEPT !.onClose = "return", !.mine = Null,
                             !.closes = 0, !.teardownErr = FALSE,
                             !.op = "startBrowser", !.prevOp = result[t].op,
                             !.entry = <<browser[b], page[b],
                                         isInterceptionEnabled[b]>>]
  IN
  IF alreadyStarted(b)
  THEN /\ startBrowserOk(t, browser[b], page[b], isInterceptionEnabled[b],
                         procs, fr)
       /\ UNCHANGED nlaunch
  ELSE IF variant[b] = "playwright" /\ ~options[b].launcher
  THEN /\ startBrowserCatch(t, browser[b], page[b], isInterceptionEnabled[b],
                            procs, fr)
       /\ UNCHANGED nlaunch
  ELSE /\ nlaunch[b] < MaxLaunch
       /\ nlaunch' = [nlaunch EXCEPT ![b] = nlaunch[b] + 1]
       /\ Go(t, browser[b], page[b], isInterceptionEnabled[b], procs,
             [fr EXCEPT !.pc = "s_launch", !.recv = Slot(b, nlaunch[b] + 1)],
             result[t])

\* this.#browser = await launch(...) settles; then newPage() is awaited.
startBrowser_launch(t) ==
  /\ frame[t].pc = "s_launch"
  /\ \E ok \in BOOLEAN :
       LET b == botOf[t]
           p == frame[t].recv
       IN
       IF ok
       THEN Go(t, p, page[b], isInterceptionEnabled[b],
               [procs EXCEPT ![p].st = "running"],
               [frame[t] EXCEPT !.pc = "s_newPage", !.mine = p], result[t])
       ELSE startBrowserCatch(t, browser[b], page[b], isInterceptionEnabled[b],
                              procs, frame[t])
  /\ UNCHANGED <<config, nlaunch, routerVars, ncalls>>

\* this.#page = await this.#browser.newPage() settles; the "disconnected"
\* listener is registered on this.#browser.  Puppeteer then awaits
\* setUserAgent; Playwright passed user agent and viewport to newPage.
startBrowser_newPage(t) ==
  /\ frame[t].pc = "s_newPage"
  /\ \E ok \in BOOLEAN :
       LET b == botOf[t]
           p == frame[t].recv
           pr == [procs EXCEPT ![browser[b]].handler = b]
       IN
       /\ ok => Running(procs, p)
       /\ IF ~ok
          THEN startBrowserCatch(t, browser[b], page[b],
                                 isInterceptionEnabled[b], procs, frame[t])
          ELSE IF browser[b] = Null
          THEN startBrowserCatch(t, browser[b], p, isInterceptionEnabled[b],
                                 procs, frame[t])
          ELSE IF variant[b] = "puppeteer"
          THEN Go(t, browser[b], p, isInterceptionEnabled[b], pr,
                  [frame[t] EXCEPT !.pc = "s_ua", !.recv = p], result[t])
          ELSE startBrowserBlocking(t, browser[b], p, isInterceptionEnabled[b],
                                   pr, frame[t])
  /\ UNCHANGED <<config, nlaunch, routerVars, ncalls>>

\* await this.#page.setUserAgent(...) settles (Puppeteer); setViewport is
\* called on this.#page, which a disconnect may have cleared meanwhile.
startBrowser_setUserAgent(t) ==
  /\ frame[t].pc = "s_ua"
  /\ \E ok \in BOOLEAN :
       LET b == botOf[t] IN
       /\ ok => Running(procs, frame[t].recv)
       /\ IF ok /\ page[b] # Null
          THEN Go(t, browser[b], page[b], isInterceptionEnabled[b], procs,
                  [frame[t] EXCEPT !.pc = "s_vp", !.recv = page[b]], result[t])
          ELSE startBrowserCatch(t, browser[b], page[b],
                                 isInterceptionEnabled[b], procs, frame[t])
  /\ UNCHANGED <<config, nlaunch, routerVars, ncalls>>

\* await this.#page.setViewport(...) settles (Puppeteer).
startBrowser_setViewport(t) ==
  /\ frame[t].pc = "s_vp"
  /\ \E ok \in BOOLEAN :
       LET b == botOf[t] IN
       /\ ok => Running(procs, frame[t].recv)
       /\ IF ok
          THEN startBrowserBlocking(t, browser[b], page[b],
                                    isInterceptionEnabled[b], procs, frame[t])
          ELSE startBrowserCatch(t, browser[b], page[b],
                                 isInterceptionEnabled[b], procs, frame[t])
  /\ UNCHANGED <<config, nlaunch, routerVars, ncalls>>

\* await this.#page.setRequestInterception(true) settles (Puppeteer): the
\* flag is set, then the request listener is added to this.#page; an error
\* in either is caught inside #enableResourceBlocking and resets the flag.
enableResourceBlocking_sri(t) ==
  /\ frame[t].pc = "e_sri"
  /\ \E ok \in BOOLEAN :
       LET b == botOf[t]
           p == frame[t].recv
           pr == [procs EXCEPT ![p].intercept = TRUE]
       IN
       /\ ok => Running(procs, p)
       /\ IF ~ok
          THEN startBrowserOk(t, browser[b], page[b], FALSE, procs, frame[t])
          ELSE IF page[b] = Null
          THEN startBrowserOk(t, browser[b], page[b], FALSE, pr, frame[t])
          ELSE startBrowserOk(t, browser[b], page[b], TRUE,
                              [pr EXCEPT ![page[b]].listener = TRUE], frame[t])
  /\ UNCHANGED <<config, nlaunch, routerVars, ncalls>>

\* await this.#page.route('**/*', handler) settles (Playwright).
setupResourceBlocking_route_Rethrow(t) ==
  /\ frame[t].pc = "e_route"
  /\ \E ok \in BOOLEAN :
       LET b == botOf[t]
           p == frame[t].recv
       IN
       /\ ok => Running(procs, p)
       /\ IF ok
          THEN startBrowserOk(t, browser[b], page[b], TRUE,
                              [procs EXCEPT ![p].listener = TRUE], frame[t])
          ELSE startBrowserCatch(t, browser[b], page[b], FALSE, procs,
                                 frame[t])
  /\ UNCHANGED <<config, nlaunch, routerVars, ncalls>>

setupResourceBlocking_route(t) ==
  /\ frame[t].pc = "e_route"
  /\ \E ok \in BOOLEAN :
       LET b == botOf[t]
           p == frame[t].recv
       IN
       /\ ok => Running(procs, p)
       /\ IF ok
          THEN startBrowserOk(t, browser[b], page[b], TRUE,
                              [procs EXCEPT ![p].listener = TRUE], frame[t])
          ELSE startBrowserOk(t, browser[b], page[b], FALSE, procs, frame[t])
  /\ UNCHANGED <<config, nlaunch, routerVars, ncalls>>

\* The browser process dies on its own; the library emits "disconnected",
\* and the listener registered by startBrowser clears the Bot's fields.
Disconnect(p) ==
  /\ procs[p].st = "running"
  /\ procs' = [procs EXCEPT ![p].st = "crashed"]
  /\ IF procs[p].handler # Null
     THEN /\ browser' = [browser EXCEPT ![procs[p].handler] = Null]
          /\ page' = [page EXCEPT ![procs[p].handler] = Null]
          /\ isInterceptionEnabled' =
               [isInterceptionEnabled EXCEPT ![procs[p].handler] = FALSE]
     ELSE UNCHANGED <<browser, page, isInterceptionEnabled>>
  /\ UNCHANGED <<config, nlaunch, callVars, routerVars, ncalls>>

\* The browser process dies on its own and the library has yet to emit
\* "disconnected".
Crash(p) ==
  /\ procs[p].st = "running"
  /\ procs' = [procs EXCEPT ![p].st = "crashed"]
  /\ UNCHANGED <<browser, page, isInterceptionEnabled>>
  /\ UNCHANGED <<config, nlaunch, callVars, routerVars, ncalls>>

\* The library emits "disconnected" for a browser that died: the listener
\* that startBrowser registered on it runs, once.
Notify(p) ==
  /\ procs[p].st = "crashed"
  /\ procs[p].handler # Null
  /\ procs' = [procs EXCEPT ![p].handler = Null]
  /\ browser' = [browser EXCEPT ![procs[p].handler] = Null]
  /\ page' = [page EXCEPT ![procs[p].handler] = Null]
  /\ isInterceptionEnabled' =
       [isInterceptionEnabled EXCEPT ![procs[p].handler] = FALSE]
  /\ UNCHANGED <<config, nlaunch, callVars, routerVars, ncalls>>

\* ------------------------------------------------- the request filter
ResourceTypes == {"image", "stylesheet", "font", "script"}

\* The test that sets shouldBlock.
shouldBlock(blockSettings, resourceType) ==
  \/ blockSettings.images /\ resourceType = "image"
  \/ blockSettings.css /\ resourceType = "stylesheet"
  \/ blockSettings.fonts /\ resourceType = "font"

\* #handleRequestInterception / #handleRequestRouting: the calls it makes on
\* the intercepted request, in order.
handleRequestInterception_ContinueAll(blockSettings, resourceType) ==
  <<"continue">>

handleRequestInterception_AbortThenContinue(blockSettings, resourceType) ==
  IF shouldBlock(blockSettings, resourceType)
  THEN <<"abort", "continue">>
  ELSE <<"continue">>

handleRequestInterception(blockSettings, resourceType) ==
  IF shouldBlock(blockSettings, resourceType)
  THEN <<"abort">>
  ELSE <<"continue">>

\* The library holds a request back for a decision: Puppeteer while request
\* interception is on, Playwright while a route is registered.
Intercepts(pr, p) ==
  IF variant[Owner(p)] = "puppeteer" THEN pr[p].intercept ELSE pr[p].listener

RECURSIVE PageRequests(_)
PageRequests(n) ==
  IF n = 0 THEN 0 ELSE Len(procs[n].net) + PageRequests(n - 1)

\* The navigated page of process p issues a request of the given kind; the
\* library invokes the registered handler with it.
Request(p, resourceType) ==
  /\ procs[p].st = "running"
  /\ procs[p].url # <<>>
  /\ PageRequests(MaxTasks * MaxLaunch) < MaxPageRequests
  /\ procs' =
       [procs EXCEPT ![p].net =
          Append(@, [type |-> resourceType,
                     installed |-> /\ procs[p].listener
                                   /\ page[Owner(p)] = p
                                   /\ isInterceptionEnabled[Owner(p)],
                     intercepted |-> Intercepts(procs, p),
                     calls |-> IF procs[p].listener
                               THEN handleRequestInterception(
                                      options[Owner(p)].blockResources,
                                      resourceType)
                               ELSE <<>>])]
  /\ UNCHANGED <<browser, page, isInterceptionEnabled>>
  /\ UNCHANGED <<config, nlaunch, callVars, routerVars, ncalls>>

\* -------------------------------------------------------------- Bot.setPage
\* A call of setPage(url, {waitForNetworkIdle: wait}) up to await goto().
setPage_Serialized(t, url, wait) ==
  /\ \A q \in Tasks \ {t} : frame[q].pc \in {"idle", "returned", "off"}
  /\ IF page[botOf[t]] = Null
     THEN Return(t, browser[botOf[t]], page[botOf[t]],
                 isInterceptionEnabled[botOf[t]], procs,
                 [frame[t] EXCEPT !.url = url, !.op = "setPage",
                                  !.prevOp = result[t].op],
                 "setPage", "threw", NoValue)
     ELSE Go(t, browser[botOf[t]], page[botOf[t]],
             isInterceptionEnabled[botOf[t]],
             [procs EXCEPT ![page[botOf[t]]].url = url,
                           ![page[botOf[t]]].loaded = FALSE],
             [frame[t] EXCEPT !.url = url, !.op = "setPage",
                              !.prevOp = result[t].op,
                              !.arg = "none",
                              !.entry = <<browser[botOf[t]], page[botOf[t]],
                                          isInterceptionEnabled[botOf[t]]>>,
                              !.pc = "n_goto", !.recv = page[botOf[t]]],
             result[t])

setPage(t, url, wait) ==
  LET b == botOf[t]
      fr == [frame[t] EXCEPT !.arg = IF wait THEN "wait" ELSE "none",
                             !.url = url,
                             !.op = "setPage", !.prevOp = result[t].op,
                             !.entry = <<browser[b], page[b],
                                         isInterceptionEnabled[b]>>]
  IN
  IF page[b] = Null
  THEN Return(t, browser[b], page[b], isInterceptionEnabled[b], procs, fr,
              "setPage", "threw", NoValue)
  ELSE Go(t, browser[b], page[b], isInterceptionEnabled[b],
          [procs EXCEPT ![page[b]].url = url, ![page[b]].loaded = FALSE],
          [fr EXCEPT !.pc = "n_goto", !.recv = page[b]], result[t])

\* await this.#page.goto(url, gotoOptions) settles: it rejects on a timeout
\* or a network error, and always when the process is gone.
setPage_goto_DropsPageOnError(t) ==
  /\ frame[t].pc = "n_goto"
  /\ \E ok \in BOOLEAN :
       LET b == botOf[t]
           p == frame[t].recv
           pr == [procs EXCEPT ![p].loaded = TRUE]
       IN
       /\ ok => Running(procs, p)
       /\ IF ~ok
          THEN Return(t, browser[b], Null, isInterceptionEnabled[b], procs,
                      frame[t], "setPage", "threw", NoValue)
          ELSE IF frame[t].arg # "wait"
          THEN Return(t, browser[b], page[b], isInterceptionEnabled[b], pr,
                      frame[t], "setPage", "ok", NoValue)
          ELSE IF page[b] = Null
          THEN Return(t, browser[b], page[b], isInterceptionEnabled[b], pr,
                      frame[t], "setPage", "threw", NoValue)
          ELSE Go(t, browser[b], page[b], isInterceptionEnabled[b], pr,
                  [frame[t] EXCEPT !.pc = "n_idle", !.recv = page[b]],
                  result[t])
  /\ UNCHANGED <<config, nlaunch, routerVars, ncalls>>

setPage_goto(t) ==
  /\ frame[t].pc = "n_goto"
  /\ \E ok \in BOOLEAN :
       LET b == botOf[t]
           p == frame[t].recv
           pr == [procs EXCEPT ![p].loaded = TRUE]
       IN
       /\ ok => Running(procs, p)
       /\ IF ~ok
          THEN Return(t, browser[b], page[b], isInterceptionEnabled[b], procs,
                      frame[t], "setPage", "threw", NoValue)
          ELSE IF frame[t].arg # "wait"
          THEN Return(t, browser[b], page[b], isInterceptionEnabled[b], pr,
                      frame[t], "setPage", "ok", NoValue)
          ELSE IF page[b] = Null
          THEN Return(t, browser[b], page[b], isInterceptionEnabled[b], pr,
                      frame[t], "setPage", "threw", NoValue)
          ELSE Go(t, browser[b], page[b], isInterceptionEnabled[b], pr,
                  [frame[t] EXCEPT !.pc = "n_idle", !.recv = page[b]],
                  result[t])
  /\ UNCHANGED <<config, nlaunch, routerVars, ncalls>>

\* await this.#page.waitForNetworkIdle(...) settles.
setPage_waitForNetworkIdle(t) ==
  /\ frame[t].pc = "n_idle"
  /\ \E ok \in BOOLEAN :
       LET b == botOf[t] IN
       /\ ok => Running(procs, frame[t].recv)
       /\ Return(t, browser[b], page[b], isInterceptionEnabled[b], procs,
                 frame[t], "setPage", IF ok THEN "ok" ELSE "threw", NoValue)
  /\ UNCHANGED <<config, nlaunch, routerVars, ncalls>>

\* ------------------------------------------------------- Bot.takeScreenshot
\* "png" and "jpeg"
Png == <<112, 110, 103>>

Jpeg == <<106, 112, 101, 103>>

\* "data:image/" and ";base64,"
DataImage == <<100, 97, 116, 97, 58, 105, 109, 97, 103, 101, 47>>

Base64Comma == <<59, 98, 97, 115, 101, 54, 52, 44>>

\* const screenshotOptions = { type: options.type || "png",
\*                            ...(options.screenshotOptions || {}) }
screenshotOptions_IgnoreType(opts) == [type |-> Png]

screenshotOptions(opts) ==
  [type |->
     IF "screenshotOptions" \in DOMAIN opts
     THEN IF "type" \in DOMAIN opts.screenshotOptions
          THEN opts.screenshotOptions.type
          ELSE IF "type" \in DOMAIN opts THEN opts.type ELSE Png
     ELSE IF "type" \in DOMAIN opts THEN opts.type ELSE Png]

\* `data:image/${screenshotOptions.type};base64,${data}`
dataUri(type, data) == DataImage \o type \o Base64Comma \o data

\* A call of takeScreenshot(options) up to await screenshot().
takeScreenshot_NoGuard(t, opts) ==
  Go(t, browser[botOf[t]], page[botOf[t]], isInterceptionEnabled[botOf[t]],
     procs,
     [frame[t] EXCEPT !.arg = opts, !.op = "takeScreenshot",
                      !.prevOp = result[t].op,
                      !.entry = <<browser[botOf[t]], page[botOf[t]],
                                  isInterceptionEnabled[botOf[t]]>>,
                      !.pc = "k_shot", !.recv = page[botOf[t]]],
     result[t])

takeScreenshot(t, opts) ==
  LET b == botOf[t]
      fr == [frame[t] EXCEPT !.arg = opts,
                             !.op = "takeScreenshot",
                             !.prevOp = result[t].op,
                             !.entry = <<browser[b], page[b],
                                         isInterceptionEnabled[b]>>]
  IN
  IF page[b] = Null
  THEN Return(t, browser[b], page[b], isInterceptionEnabled[b], procs, fr,
              "takeScreenshot", "threw", NoValue)
  ELSE Go(t, browser[b], page[b], isInterceptionEnabled[b], procs,
          [fr EXCEPT !.pc = "k_shot", !.recv = page[b]], result[t])

\* await this.#page.screenshot(screenshotOptions) settles with the image in
\* base64 (Playwright: with a buffer that is then encoded); the image is what
\* the page showed, the page of a URL being told by that URL.
takeScreenshot_screenshot(t) ==
  /\ frame[t].pc = "k_shot"
  /\ \E ok \in BOOLEAN :
       LET b == botOf[t]
           p == frame[t].recv
       IN
       /\ ok => Running(procs, p)
       /\ Return(t, browser[b], page[b], isInterceptionEnabled[b], procs,
                 frame[t], "takeScreenshot", IF ok THEN "ok" ELSE "threw",
                 IF ok THEN dataUri(screenshotOptions(frame[t].arg).type,
                                    btoa(procs[p].url))
                       ELSE NoValue)
  /\ UNCHANGED <<config, nlaunch, routerVars, ncalls>>

\* ------------------------------------------------- the route POST /:url
\* What the client page types, and what other callers put in the path.
ClientInputs ==
  {HostAB, HttpPrefix \o HostAB, HttpsPrefix \o HostAB, <<32>> \o HostAB}

DirectParams == {<<>>, <<33, 33, 33, 33>>, btoa(HostAB)}

ResourceKeys == {"images", "css", "fonts"}

\* blockResources of the constructor before the given keys are spread in.
BlockDefaults_CssToo == [images |-> TRUE, css |-> TRUE, fonts |-> FALSE]

BlockDefaults == [images |-> TRUE, css |-> FALSE, fonts |-> FALSE]

\* constructor(options = {}): the merged #options.  launcher tells whether
\* options.browserType names a browser the Playwright Bot can launch.
Bot(o) ==
  [optimizeLoad |->
     IF "optimizeLoad" \in DOMAIN o THEN o.optimizeLoad ELSE FALSE,
   launcher |-> IF "launcher" \in DOMAIN o THEN o.launcher ELSE TRUE,
   blockResources |->
     [k \in ResourceKeys |->
        IF "blockResources" \in DOMAIN o
        THEN IF k \in DOMAIN o.blockResources
             THEN o.blockResources[k]
             ELSE BlockDefaults[k]
        ELSE BlockDefaults[k]]]

DefaultOptions == Bot(NoOptions)

NoReq ==
  [st |-> "none", src |-> "none", input |-> <<>>, param |-> <<>>,
   url |-> <<>>, route |-> NoValue]

\* res.json({ status: false })
FailBody_WithDetail == [status |-> FALSE, content |-> NoValue]

FailBody == [status |-> FALSE]

\* res.json({ status: true, content: route })
SuccessBody(route) == [status |-> TRUE, content |-> route]

\* getScreenshot of the client page: the typed URL is trimmed, given a
\* scheme, encoded and posted.
ClientPost(r, u) ==
  /\ req[r].st = "none"
  /\ r <= MaxRequests
  /\ r > 1 => req[r - 1].st # "none"
  /\ Trim(u) # <<>>
  /\ req' = [req EXCEPT ![r] = [NoReq EXCEPT !.st = "recv", !.src = "client",
                                  !.input = u,
                                  !.param = btoa(fetchUrl(Trim(u)))]]
  /\ UNCHANGED <<config, botVars, nlaunch, callVars, resp, log, ncalls>>

\* Any other caller posts a path segment of its own.
DirectPost(r, p) ==
  /\ req[r].st = "none"
  /\ r <= MaxRequests
  /\ r > 1 => req[r - 1].st # "none"
  /\ req' = [req EXCEPT ![r] = [NoReq EXCEPT !.st = "recv", !.src = "direct",
                                  !.input = p, !.param = p]]
  /\ UNCHANGED <<config, botVars, nlaunch, callVars, resp, log, ncalls>>

\* catch (error) { res.json({ status: false }); }
Catch(r, events) ==
  /\ req' = [req EXCEPT ![r].st = "done"]
  /\ log' = [log EXCEPT ![r] = @ \o events]
  /\ resp' = [resp EXCEPT ![r] = Append(@, FailBody)]
  /\ UNCHANGED <<botVars, nlaunch, callVars>>

\* The handler starts: the parameter check, new Bot(), bot.startBrowser().
handler(r) ==
  /\ req[r].st = "recv"
  /\ IF req[r].param = <<>>
     THEN Catch(r, <<"param:threw">>)
     ELSE /\ req' = [req EXCEPT ![r].st = "start"]
          /\ log' = [log EXCEPT ![r] = @ \o <<"start">>]
          /\ startBrowser(r)
          /\ UNCHANGED resp
  /\ UNCHANGED <<config, ncalls>>

\* The URL the handler hands to setPage.
targetUrl(param) == atob(param).val

\* startBrowser settled; atob(req.params.url) is evaluated and setPage called.
afterStartBrowser(r) ==
  /\ req[r].st = "start"
  /\ frame[r].pc = "returned"
  /\ IF result[r].out = "threw"
     THEN Catch(r, <<"start:threw">>)
     ELSE IF ~atob(req[r].param).ok
     THEN Catch(r, <<"start:ok", "decode:threw">>)
     ELSE /\ req' = [req EXCEPT ![r].st = "nav",
                                ![r].url = targetUrl(req[r].param)]
          /\ log' = [log EXCEPT ![r] = @ \o <<"start:ok", "navigate">>]
          /\ setPage(r, targetUrl(req[r].param), FALSE)
          /\ UNCHANGED <<resp, nlaunch>>
  /\ UNCHANGED <<config, ncalls>>

\* setPage settled; takeScreenshot() is called with no options.
afterSetPage_DropsRejection(r) ==
  /\ req[r].st = "nav"
  /\ frame[r].pc = "returned"
  /\ result[r].out = "ok"
  /\ req' = [req EXCEPT ![r].st = "shot"]
  /\ log' = [log EXCEPT ![r] = @ \o <<"navigate:ok", "capture">>]
  /\ takeScreenshot(r, NoOptions)
  /\ UNCHANGED <<resp, nlaunch>>
  /\ UNCHANGED <<config, ncalls>>

afterSetPage(r) ==
  /\ req[r].st = "nav"
  /\ frame[r].pc = "returned"
  /\ IF result[r].out = "threw"
     THEN Catch(r, <<"navigate:threw">>)
     ELSE /\ req' = [req EXCEPT ![r].st = "shot"]
          /\ log' = [log EXCEPT ![r] = @ \o <<"navigate:ok", "capture">>]
          /\ takeScreenshot(r, NoOptions)
          /\ UNCHANGED <<resp, nlaunch>>
  /\ UNCHANGED <<config, ncalls>>

\* takeScreenshot settled: const route = ...; closeBrowser() is called.
afterTakeScreenshot_RespondFirst(r) ==
  /\ req[r].st = "shot"
  /\ frame[r].pc = "returned"
  /\ IF result[r].out = "threw"
     THEN Catch(r, <<"capture:threw">>)
     ELSE /\ req' = [req EXCEPT ![r].st = "stop", ![r].route = result[r].val]
          /\ log' = [log EXCEPT ![r] = @ \o <<"capture:ok", "stop">>]
          /\ resp' = [resp EXCEPT ![r] = Append(@, SuccessBody(result[r].val))]
          /\ closeBrowser(r)
          /\ UNCHANGED nlaunch
  /\ UNCHANGED <<config, ncalls>>

afterTakeScreenshot(r) ==
  /\ req[r].st = "shot"
  /\ frame[r].pc = "returned"
  /\ IF result[r].out = "threw"
     THEN Catch(r, <<"capture:threw">>)
     ELSE /\ req' = [req EXCEPT ![r].st = "stop", ![r].route = result[r].val]
          /\ log' = [log EXCEPT ![r] = @ \o <<"capture:ok", "stop">>]
          /\ closeBrowser(r)
          /\ UNCHANGED <<resp, nlaunch>>
  /\ UNCHANGED <<config, ncalls>>

\* closeBrowser settled: res.json({ status: true, content: route }).
afterCloseBrowser(r) ==
  /\ req[r].st = "stop"
  /\ frame[r].pc = "returned"
  /\ IF result[r].out = "threw"
     THEN Catch(r, <<"stop:threw">>)
     ELSE /\ req' = [req EXCEPT ![r].st = "done"]
          /\ log' = [log EXCEPT ![r] = @ \o <<"stop:ok">>]
          /\ resp' = [resp EXCEPT ![r] = Append(@, SuccessBody(req[r].route))]
          /\ UNCHANGED <<botVars, nlaunch, callVars>>
  /\ UNCHANGED <<config, ncalls>>

\* ------------------------------------------------------- a caller of one Bot
DriverUrls == {HttpPrefix \o HostAB, HttpsPrefix \o HostAB}

ImageTypes == {Png, Jpeg}

\* The options that the callers of takeScreenshot pass.
ScreenshotOptionSets ==
  {NoOptions,
   [type |-> Jpeg],
   [screenshotOptions |-> [type |-> Jpeg]],
   [type |-> Png, screenshotOptions |-> [type |-> Jpeg]]}

OptionSets == {Bot(o) : o \in [optimizeLoad : BOOLEAN, launcher : BOOLEAN]}

RECURSIVE TotalCalls(_)
TotalCalls(n) == IF n = 0 THEN 0 ELSE ncalls[n] + TotalCalls(n - 1)

CanCall(t) ==
  /\ frame[t].pc \in {"idle", "returned"}
  /\ TotalCalls(MaxTasks) < budget

Called(t) ==
  /\ ncalls' = [ncalls EXCEPT ![t] = @ + 1]
  /\ UNCHANGED <<config, routerVars>>

CallStartBrowser(t) == CanCall(t) /\ startBrowser(t) /\ Called(t)

CallSetPage(t, url, wait) ==
  CanCall(t) /\ setPage(t, url, wait) /\ Called(t) /\ UNCHANGED nlaunch

CallTakeScreenshot(t, opts) ==
  CanCall(t) /\ takeScreenshot(t, opts) /\ Called(t) /\ UNCHANGED nlaunch

CallCloseBrowser(t) ==
  CanCall(t) /\ closeBrowser(t) /\ Called(t) /\ UNCHANGED nlaunch

\* ----------------------------------------------------------- the client page
MaxCaptures == 2        \* invocations of getScreenshot on the page

Captures == 1..MaxCaptures

Hash == <<35>>                                               \* "#"

\* The texts of the status placeholder (accents left out).
InitialText == "La captura generada aparecera aqui."

GeneratingText == "Generando captura..."

ProcessingText == "Procesando imagen para descarga..."

ErrorText == "Error al generar la captura."

\* The elements as the markup and the style sheet have them before any
\* script runs (.download-button is display: none).
Markup ==
  [bar |-> "none", img |-> "none", src |-> Hash, link |-> "none",
   generating |-> FALSE, href |-> Hash, linkText |-> "Descargar Imagen",
   status |-> InitialText, statusShown |-> "block", displayUrl |-> <<>>,
   combined |-> <<>>, disabled |-> FALSE, button |-> "Capturar"]

resetUI_KeepsImage(d) ==
  [d EXCEPT !.bar = "none", !.link = "none",
            !.generating = FALSE, !.href = Hash, !.status = InitialText,
            !.statusShown = "block", !.displayUrl = <<>>, !.combined = <<>>,
            !.disabled = FALSE, !.button = "Capturar"]

resetUI(d) ==
  [d EXCEPT !.bar = "none", !.img = "none", !.src = Hash, !.link = "none",
            !.generating = FALSE, !.href = Hash, !.status = InitialText,
            !.statusShown = "block", !.displayUrl = <<>>, !.combined = <<>>,
            !.disabled = FALSE, !.button = "Capturar"]

\* The page once loaded: the script ends with a call of resetUI().
PageLoaded == resetUI(Markup)

NoCapture ==
  [pc |-> "none", by |-> "none", url |-> <<>>,
   reply |-> [kind |-> "none", body |-> NoValue], canvas |-> <<>>]

\* let displayUrl = urlWebsite; if it has no scheme: 'https://' + displayUrl
displayUrl(urlWebsite) ==
  IF ~StartsWith(urlWebsite, HttpPrefix) /\ ~StartsWith(urlWebsite, HttpsPrefix)
  THEN HttpsPrefix \o urlWebsite
  ELSE urlWebsite

\* What the page may type into the input: URLs, nothing, a blank.
TypedInputs == ClientInputs \cup {<<>>, <<32>>}

\* "text": a content that is no image.
NotAnImage == <<116, 101, 120, 116>>

\* What fetch() and res.json() can come to for the posted URL: fetch rejects,
\* the status is not OK, the body is no JSON, or it is one of the bodies the
\* server sends, or a body whose content is no data:image URI.
Replies(url) ==
  {[kind |-> "neterr", body |-> NoValue],
   [kind |-> "status", body |-> NoValue],
   [kind |-> "nojson", body |-> NoValue],
   [kind |-> "json", body |-> FailBody],
   [kind |-> "json", body |-> SuccessBody(NotAnImage)],
   [kind |-> "json", body |-> SuccessBody(dataUri(Png, btoa(url)))]}

\* resJson && resJson.content && resJson.content.startsWith('data:image')
hasImage(resJson) ==
  /\ "content" \in DOMAIN resJson
  /\ StartsWith(resJson.content, SubSeq(DataImage, 1, 10))

\* imageElement.src.match(/data:(image\/\w+);/)?.[1] || 'image/png', less
\* its "image/": the letters between "data:image/" and the next ";".
RECURSIVE Word(_)
Word(s) ==
  IF s = <<>> \/ s[1] \notin (48..57) \cup (65..90) \cup {95} \cup (97..122)
  THEN <<>>
  ELSE <<s[1]>> \o Word(Tail(s))

mimeType(src) ==
  LET rest == IF StartsWith(src, DataImage)
              THEN SubSeq(src, Len(DataImage) + 1, Len(src))
              ELSE <<>>
      w == Word(rest)
  IN
  IF w # <<>> /\ Len(rest) > Len(w) /\ rest[Len(w) + 1] = 59 THEN w ELSE Png

\* canvas.toDataURL(mimeType, 1) of the canvas html2canvas drew from the
\* container: the address bar over the image.
toDataURL(canvas, type) == dataUri(type, btoa(canvas))

\* The invocations of getScreenshot that have not come to their end.
InFlight == {c \in Captures : captures[c].pc \notin {"none", "empty", "failed", "done"}}

\* The invocation c is over: its locals are gone; what it was called for is
\* kept for the record.
Over(c, how) == [NoCapture EXCEPT !.pc = how, !.url = captures[c].url]

Step(c, d, cap) ==
  /\ dom' = d
  /\ captures' = [captures EXCEPT ![c] = cap]
  /\ UNCHANGED <<variant, options, botOf, budget, scenario, botVars, nlaunch,
                 callVars, routerVars, ncalls>>

\* catch (err) { alert(...); resetUI(); statusPlaceholder.textContent = ... }
getScreenshot_catch(c) ==
  Step(c, [resetUI(dom) EXCEPT !.status = ErrorText], Over(c, "failed"))

\* getScreenshot() up to await fetch(): called by a click on the capture
\* button, which a disabled button does not take, or by Enter in the input.
getScreenshot(c, typed, by) ==
  /\ captures[c].pc = "none"
  /\ c > 1 => captures[c - 1].pc # "none"
  /\ by = "click" => ~dom.disabled
  /\ LET urlWebsite == Trim(typed) IN
     IF urlWebsite = <<>>
     THEN Step(c, resetUI(dom), Over(c, "empty"))
     ELSE Step(c, [resetUI(dom) EXCEPT !.disabled = TRUE,
                                       !.button = "Capturando...",
                                       !.status = GeneratingText],
               [captures[c] EXCEPT !.pc = "fetch", !.by = by,
                                   !.url = urlWebsite])

\* await fetch(`/${encodedUrl}`, { method: 'POST' }) settles.
getScreenshot_fetch(c, reply) ==
  /\ captures[c].pc = "fetch"
  /\ IF reply.kind = "neterr"
     THEN getScreenshot_catch(c)
     ELSE Step(c, dom,
               [captures[c] EXCEPT !.reply = reply,
                  !.pc = IF reply.kind = "status" THEN "errorBody" ELSE "json"])

\* if (!res.ok): await res.json() settles, either way; the error is thrown.
getScreenshot_errorBody(c) ==
  /\ captures[c].pc = "errorBody"
  /\ getScreenshot_catch(c)

\* generateCombinedImageForDownload up to await new Promise(setTimeout).
generateCombinedImageForDownload(d) ==
  [d EXCEPT !.link = "inline-block", !.linkText = "Generando descarga...",
            !.generating = TRUE, !.href = Hash]

\* const resJson = await res.json() settles; the image is shown, or the
\* error is thrown.
getScreenshot_json(c) ==
  /\ captures[c].pc = "json"
  /\ IF captures[c].reply.kind = "json" /\ hasImage(captures[c].reply.body)
     THEN Step(c,
               generateCombinedImageForDownload(
                 [dom EXCEPT !.status = ProcessingText,
                             !.src = captures[c].reply.body.content,
                             !.displayUrl = displayUrl(captures[c].url),
                             !.bar = "flex", !.img = "block",
                             !.statusShown = "none"]),
               [captures[c] EXCEPT !.pc = "delay"])
     ELSE getScreenshot_catch(c)

\* The 2 s timer fires and html2canvas(screenshotContainer) is called: it
\* draws the address bar and the image as the container has them.
generateCombinedImage_delay(c) ==
  /\ captures[c].pc = "delay"
  /\ Step(c, dom,
          [captures[c] EXCEPT !.pc = "html2canvas",
             !.canvas = (IF dom.bar = "flex" THEN dom.displayUrl ELSE <<>>)
                        \o (IF dom.img = "block" THEN dom.src ELSE <<>>)])

\* generateCombinedImageForDownload without its finally block: only the
\* successful path enables the button.
generateCombinedImage_html2canvas_NoFinally(c) ==
  /\ captures[c].pc = "html2canvas"
  /\ \E ok \in BOOLEAN :
       IF ok
       THEN Step(c,
                 [dom EXCEPT
                    !.combined = toDataURL(captures[c].canvas, mimeType(dom.src)),
                    !.href = toDataURL(captures[c].canvas, mimeType(dom.src)),
                    !.linkText = "Descargar Imagen", !.generating = FALSE,
                    !.disabled = FALSE, !.button = "Capturar"],
                 Over(c, "done"))
       ELSE Step(c,
                 [dom EXCEPT !.href = dom.src,
                             !.linkText = "Descargar (solo captura)",
                             !.generating = FALSE],
                 Over(c, "done"))

\* await html2canvas(...) settles: the link gets the combined image, or,
\* html2canvas failing, the image as it is; finally the button is enabled.
generateCombinedImage_html2canvas(c) ==
  /\ captures[c].pc = "html2canvas"
  /\ \E ok \in BOOLEAN :
       IF ok
       THEN Step(c,
                 [dom EXCEPT
                    !.combined = toDataURL(captures[c].canvas, mimeType(dom.src)),
                    !.href = toDataURL(captures[c].canvas, mimeType(dom.src)),
                    !.linkText = "Descargar Imagen", !.generating = FALSE,
                    !.disabled = FALSE, !.button = "Capturar"],
                 Over(c, "done"))
       ELSE Step(c,
                 [dom EXCEPT !.href = dom.src,
                             !.linkText = "Descargar (solo captura)",
                             !.generating = FALSE,
                             !.disabled = FALSE, !.button = "Capturar"],
                 Over(c, "done"))

\* ------------------------------------------------------------ specifications
InitIdle ==
  /\ scenario = NoScenario
  /\ dom = PageLoaded
  /\ captures = [c \in Captures |-> NoCapture]
  /\ browser = [b \in Bots |-> Null]
  /\ page = [b \in Bots |-> Null]
  /\ isInterceptionEnabled = [b \in Bots |-> FALSE]
  /\ procs = [p \in ProcIds |-> NoProc]
  /\ nlaunch = [b \in Bots |-> 0]
  /\ result = [t \in Tasks |-> NoResult]
  /\ req = [t \in Tasks |-> NoReq]
  /\ resp = [t \in Tasks |-> <<>>]
  /\ log = [t \in Tasks |-> <<>>]
  /\ ncalls = [t \in Tasks |-> 0]

\* Every Bot of a deployment is of the same class.
InitCommon ==
  /\ variant \in {[b \in Bots |-> v] : v \in Variants}
  /\ InitIdle

\* The server: every request constructs its own Bot with no options.
Init ==
  /\ InitCommon
  /\ options = [b \in Bots |-> DefaultOptions]
  /\ budget = 0
  /\ botOf = [t \in Tasks |-> t]
  /\ frame = [t \in Tasks |-> IdleFrame]

\* The steps of the Bot at which an await settles.
BotStep(t) ==
  \/ startBrowser_launch(t)
  \/ startBrowser_newPage(t)
  \/ startBrowser_setUserAgent(t)
  \/ startBrowser_setViewport(t)
  \/ setPage_goto(t)
  \/ takeScreenshot_screenshot(t)
  \/ closeBrowser_close(t)

\* The steps that only occur with optimizeLoad or waitForNetworkIdle.
BotOptionStep(t) ==
  \/ enableResourceBlocking_sri(t)
  \/ setupResourceBlocking_route(t)
  \/ disableResourceBlocking_sri(t)
  \/ removeResourceBlocking_unroute(t)
  \/ setPage_waitForNetworkIdle(t)

Next ==
  \/ \E r \in Tasks, u \in ClientInputs : ClientPost(r, u)
  \/ \E r \in Tasks, p \in DirectParams : DirectPost(r, p)
  \/ \E r \in Tasks : handler(r)
  \/ \E r \in Tasks : afterStartBrowser(r)
  \/ \E r \in Tasks : afterSetPage(r)
  \/ \E r \in Tasks : afterTakeScreenshot(r)
  \/ \E r \in Tasks : afterCloseBrowser(r)
  \/ \E t \in Tasks : BotStep(t)
  \/ \E p \in ProcIds : Disconnect(p)

Spec == Init /\ [][Next]_vars

\* The server when goto() settles within its timeout (gotoOptions.timeout,
\* 30 s by default) and the event loop resumes the handler that awaits it.
SpecTimeout ==
  /\ Init
  /\ [][Next]_vars
  /\ \A t \in Tasks : WF_vars(setPage_goto(t))
  /\ \A r \in Tasks : WF_vars(afterSetPage(r))

\* One Bot, with any options, called by one caller, one call after another.
InitSeq ==
  /\ InitCommon
  /\ options \in {[b \in Bots |-> o] : o \in OptionSets}
  /\ budget = MaxCalls
  /\ botOf = [t \in Tasks |-> 1]
  /\ frame = [t \in Tasks |->
                IF t = 1 THEN IdleFrame ELSE [IdleFrame EXCEPT !.pc = "off"]]

NextBot ==
  \/ \E t \in Tasks : CallStartBrowser(t)
  \/ \E t \in Tasks, u \in DriverUrls, w \in BOOLEAN : CallSetPage(t, u, w)
  \/ \E t \in Tasks, o \in ScreenshotOptionSets : CallTakeScreenshot(t, o)
  \/ \E t \in Tasks : CallCloseBrowser(t)
  \/ \E t \in Tasks : BotStep(t)
  \/ \E t \in Tasks : BotOptionStep(t)
  \/ \E p \in ProcIds : Disconnect(p)

SpecSeq == InitSeq /\ [][NextBot]_vars

\* One Bot called by two callers whose calls interleave at the awaits.
InitConc ==
  /\ InitCommon
  /\ options \in {[b \in Bots |-> o] : o \in OptionSets}
  /\ budget = MaxConcCalls
  /\ botOf = [t \in Tasks |-> 1]
  /\ frame = [t \in Tasks |->
                IF t <= 2 THEN IdleFrame ELSE [IdleFrame EXCEPT !.pc = "off"]]

\* The callers navigate without waitForNetworkIdle and capture with no
\* options.
NextConc ==
  \/ \E t \in Tasks : CallStartBrowser(t)
  \/ \E t \in Tasks, u \in DriverUrls : CallSetPage(t, u, FALSE)
  \/ \E t \in Tasks : CallTakeScreenshot(t, NoOptions)
  \/ \E t \in Tasks : CallCloseBrowser(t)
  \/ \E t \in Tasks : BotStep(t)
  \/ \E t \in Tasks : enableResourceBlocking_sri(t)
  \/ \E t \in Tasks : setupResourceBlocking_route(t)
  \/ \E t \in Tasks : disableResourceBlocking_sri(t)
  \/ \E t \in Tasks : removeResourceBlocking_unroute(t)
  \/ \E p \in ProcIds : Disconnect(p)

SpecConc == InitConc /\ [][NextConc]_vars

\* What the caller of new Bot() may pass for blockResources.
BlockOptions == UNION {[d -> BOOLEAN] : d \in SUBSET ResourceKeys}

FilterOptions ==
  [optimizeLoad : BOOLEAN]
    \cup [optimizeLoad : BOOLEAN, blockResources : BlockOptions]

\* One Bot with any blockResources, started, navigated and stopped by one
\* caller while its page issues requests.
InitFilter ==
  /\ InitCommon
  /\ options \in {[b \in Bots |-> Bot(o)] : o \in FilterOptions}
  /\ budget = MaxFilterCalls
  /\ botOf = [t \in Tasks |-> 1]
  /\ frame = [t \in Tasks |->
                IF t = 1 THEN IdleFrame ELSE [IdleFrame EXCEPT !.pc = "off"]]

NextFilter ==
  \/ \E t \in Tasks : CallStartBrowser(t)
  \/ \E t \in Tasks : CallSetPage(t, HttpPrefix \o HostAB, FALSE)
  \/ \E t \in Tasks : CallCloseBrowser(t)
  \/ \E t \in Tasks : startBrowser_launch(t)
  \/ \E t \in Tasks : startBrowser_newPage(t)
  \/ \E t \in Tasks : startBrowser_setUserAgent(t)
  \/ \E t \in Tasks : startBrowser_setViewport(t)
  \/ \E t \in Tasks : enableResourceBlocking_sri(t)
  \/ \E t \in Tasks : setupResourceBlocking_route(t)
  \/ \E t \in Tasks : setPage_goto(t)
  \/ \E t \in Tasks : disableResourceBlocking_sri(t)
  \/ \E t \in Tasks : removeResourceBlocking_unroute(t)
  \/ \E t \in Tasks : closeBrowser_close(t)
  \/ \E p \in ProcIds : Disconnect(p)
  \/ \E p \in ProcIds, ty \in ResourceTypes : Request(p, ty)

SpecFilter == InitFilter /\ [][NextFilter]_vars

\* The URL that the r-th of the requests in flight asks for: "http://a.b1",
\* "http://a.b2", ...
UrlOf(r) == HttpPrefix \o HostAB \o <<48 + r>>

\* const bot = new Bot(): the Bot that the handler of request r constructs.
NewBot_Shared(r) == 1

NewBot(r) == r

\* The server has received MaxInFlight requests, each for a URL of its own,
\* and no handler has started yet.
InitPerRequest ==
  /\ variant \in {[b \in Bots |-> v] : v \in Variants}
  /\ scenario = NoScenario
  /\ dom = PageLoaded
  /\ captures = [c \in Captures |-> NoCapture]
  /\ browser = [b \in Bots |-> Null]
  /\ page = [b \in Bots |-> Null]
  /\ isInterceptionEnabled = [b \in Bots |-> FALSE]
  /\ procs = [p \in ProcIds |-> NoProc]
  /\ nlaunch = [b \in Bots |-> 0]
  /\ result = [t \in Tasks |-> NoResult]
  /\ req = [t \in Tasks |->
              IF t <= MaxInFlight
              THEN [NoReq EXCEPT !.st = "recv", !.src = "direct",
                                 !.input = btoa(UrlOf(t)),
                                 !.param = btoa(UrlOf(t))]
              ELSE NoReq]
  /\ resp = [t \in Tasks |-> <<>>]
  /\ log = [t \in Tasks |-> <<>>]
  /\ ncalls = [t \in Tasks |-> 0]
  /\ options = [b \in Bots |-> DefaultOptions]
  /\ budget = 0
  /\ botOf = [t \in Tasks |-> NewBot(t)]
  /\ frame = [t \in Tasks |-> IdleFrame]

\* The handlers of the requests in flight interleave at their awaits.
NextPerRequest ==
  \/ \E r \in Tasks : handler(r)
  \/ \E r \in Tasks : afterStartBrowser(r)
  \/ \E r \in Tasks : afterSetPage(r)
  \/ \E r \in Tasks : afterTakeScreenshot(r)
  \/ \E r \in Tasks : afterCloseBrowser(r)
  \/ \E t \in Tasks : BotStep(t)
  \/ \E p \in ProcIds : Disconnect(p)

SpecPerRequest == InitPerRequest /\ [][NextPerRequest]_vars

\* One Bot with default options, started by the first of two capture
\* pipelines and shared by both: each navigates to the URL of its own and
\* captures, their calls interleaving at the awaits.
InitShared ==
  /\ InitCommon
  /\ options = [b \in Bots |-> DefaultOptions]
  /\ budget = MaxSharedCalls
  /\ botOf = [t \in Tasks |-> 1]
  /\ frame = [t \in Tasks |->
                IF t <= 2 THEN IdleFrame ELSE [IdleFrame EXCEPT !.pc = "off"]]

NextShared ==
  \/ CallStartBrowser(1)
  \/ \E t \in Tasks : CallSetPage(t, UrlOf(t), FALSE)
  \/ \E t \in Tasks : CallTakeScreenshot(t, NoOptions)
  \/ \E t \in Tasks : BotStep(t)
  \/ \E p \in ProcIds : Disconnect(p)

SpecShared == InitShared /\ [][NextShared]_vars


\* ----------------------------------------- the two Bot classes side by side
MaxEquivCalls == 3      \* calls made on each of the two Bots

\* The library call a Bot call is suspended at, by the name the two classes
\* have in common for it.
AwaitName(pc) ==
  CASE pc = "s_launch" -> "launch"
    [] pc = "s_newPage" -> "newPage"
    [] pc = "s_ua" -> "setUserAgent"
    [] pc = "s_vp" -> "setViewport"
    [] pc \in {"e_sri", "e_route"} -> "install"
    [] pc = "n_goto" -> "goto"
    [] pc = "n_idle" -> "waitForNetworkIdle"
    [] pc = "k_shot" -> "screenshot"
    [] pc \in {"d_sri", "d_unroute"} -> "remove"
    [] pc = "c_close" -> "close"
    [] OTHER -> "none"

\* The awaits of startBrowser that only the Puppeteer class has: Playwright
\* hands user agent and viewport to newPage.
PuppeteerOnly == {"setUserAgent", "setViewport"}

\* What the driver and the library can do to one call: the method called,
\* the library call that rejects (if any), and the await during which the
\* browser disconnects ("after": once the call has settled).
Scenarios ==
  [op : {"startBrowser"}, wait : {FALSE},
   fail : {"none", "launch", "newPage", "install"},
   disc : {"none", "newPage", "install", "after"} \cup PuppeteerOnly]
  \cup [op : {"setPage"}, wait : BOOLEAN,
        fail : {"none", "goto", "waitForNetworkIdle"},
        disc : {"none", "goto", "waitForNetworkIdle", "after"}]
  \cup [op : {"takeScreenshot"}, wait : {FALSE},
        fail : {"none", "screenshot"},
        disc : {"none", "screenshot", "after"}]
  \cup [op : {"closeBrowser"}, wait : {FALSE},
        fail : {"none", "remove", "close"},
        disc : {"none", "remove", "close", "after"}]

\* The point of task t's call at which the scenario has the browser of its
\* Bot disconnect.  Playwright has no await between newPage and the filter:
\* a disconnect that follows newPage finds it at the next await, or settled.
DiscPoint(t) ==
  /\ ncalls[t] = scenario.k
  /\ \/ scenario.disc # "none" /\ scenario.disc = AwaitName(frame[t].pc)
     \/ scenario.disc = "after" /\ frame[t].pc = "returned"
     \/ /\ scenario.disc \in PuppeteerOnly
        /\ variant[botOf[t]] = "playwright"
        /\ frame[t].pc \in {"e_route", "returned"}

Due(t) ==
  DiscPoint(t) /\ \E p \in ProcIds : Owner(p) = botOf[t] /\ Running(procs, p)

\* The driver picks the next call of both Bots and what the library does.
Choose ==
  /\ \A t \in {1, 2} :
       frame[t].pc \in {"idle", "returned"} /\ ncalls[t] = scenario.k /\ ~Due(t)
  /\ scenario.k < MaxEquivCalls
  /\ \E s \in Scenarios :
       scenario' = [k |-> scenario.k + 1, op |-> s.op, wait |-> s.wait,
                    fail |-> s.fail, disc |-> s.disc,
                    window |-> scenario.window \/ s.disc \in PuppeteerOnly]
  /\ UNCHANGED <<variant, options, botOf, budget, clientVars, botVars,
                 nlaunch, callVars, routerVars, ncalls>>

\* The two Bots share nothing, so the order of their steps is immaterial:
\* the Playwright Bot (task 2) is let catch up with the Puppeteer Bot (task
\* 1) before that one goes on.
CaughtUp ==
  \/ ncalls[2] = scenario.k /\ frame[2].pc = "returned"
  \/ /\ ncalls[1] = ncalls[2]
     /\ AwaitName(frame[1].pc) = AwaitName(frame[2].pc)

Turn(t) == IF t = 1 THEN CaughtUp ELSE ~CaughtUp

ToCall(t, op) == Turn(t) /\ ncalls[t] = scenario.k - 1 /\ scenario.op = op

\* Whether the library call that task t awaits resolves in this step.
Resolves(t) ==
  LET pc == frame[t].pc
      p == frame[t].recv
  IN
  CASE pc \in {"s_launch", "s_newPage", "s_ua", "s_vp"} ->
         frame'[t].onClose # "rethrow"
    [] pc = "e_sri" -> procs'[p].intercept
    [] pc = "e_route" -> procs'[p].listener
    [] pc = "n_goto" -> procs'[p].loaded
    [] pc \in {"n_idle", "k_shot"} -> result'[t].out = "ok"
    [] pc \in {"d_sri", "d_unroute"} -> ~frame'[t].teardownErr
    [] pc = "c_close" -> frame'[t].teardownErr = frame[t].teardownErr
    [] OTHER -> FALSE

\* Whether the scenario has it resolve; a call on a process that is gone
\* rejects whatever the scenario.
Expected(t) ==
  /\ scenario.fail # AwaitName(frame[t].pc)
  /\ frame[t].pc \in {"s_launch", "c_close"} \/ Running(procs, frame[t].recv)

\* The library answers task t as the scenario says, once the disconnect that
\* the scenario places before the answer has been delivered.
Scripted(t) ==
  /\ Turn(t)
  /\ ~Due(t)
  /\ \/ frame[t].pc = "c_close" /\ frame[t].teardownErr
     \/ Resolves(t) <=> Expected(t)

\* A Puppeteer Bot and a Playwright Bot built with the same options (of a
\* browser type that Playwright supports), each with a caller of its own.
InitEquiv ==
  /\ variant = [b \in Bots |-> IF b = 1 THEN "puppeteer" ELSE "playwright"]
  /\ InitIdle
  /\ options \in {[b \in Bots |-> o] : o \in {x \in OptionSets : x.launcher}}
  /\ budget = 2 * MaxEquivCalls
  /\ botOf = [t \in Tasks |-> t]
  /\ frame = [t \in Tasks |->
                IF t <= 2 THEN IdleFrame ELSE [IdleFrame EXCEPT !.pc = "off"]]

NextEquiv ==
  \/ Choose
  \/ \E t \in {1, 2} : ToCall(t, "startBrowser") /\ CallStartBrowser(t)
  \/ \E t \in {1, 2} :
       ToCall(t, "setPage") /\ CallSetPage(t, UrlOf(scenario.k), scenario.wait)
  \/ \E t \in {1, 2} :
       ToCall(t, "takeScreenshot") /\ CallTakeScreenshot(t, NoOptions)
  \/ \E t \in {1, 2} : ToCall(t, "closeBrowser") /\ CallCloseBrowser(t)
  \/ \E t \in {1, 2} : startBrowser_launch(t) /\ Scripted(t)
  \/ \E t \in {1, 2} : startBrowser_newPage(t) /\ Scripted(t)
  \/ \E t \in {1, 2} : startBrowser_setUserAgent(t) /\ Scripted(t)
  \/ \E t \in {1, 2} : startBrowser_setViewport(t) /\ Scripted(t)
  \/ \E t \in {1, 2} : enableResourceBlocking_sri(t) /\ Scripted(t)
  \/ \E t \in {1, 2} : setupResourceBlocking_route(t) /\ Scripted(t)
  \/ \E t \in {1, 2} : setPage_goto(t) /\ Scripted(t)
  \/ \E t \in {1, 2} : setPage_waitForNetworkIdle(t) /\ Scripted(t)
  \/ \E t \in {1, 2} : takeScreenshot_screenshot(t) /\ Scripted(t)
  \/ \E t \in {1, 2} : disableResourceBlocking_sri(t) /\ Scripted(t)
  \/ \E t \in {1, 2} : removeResourceBlocking_unroute(t) /\ Scripted(t)
  \/ \E t \in {1, 2} : closeBrowser_close(t) /\ Scripted(t)
  \/ \E t \in {1, 2}, p \in ProcIds :
       Due(t) /\ Owner(p) = botOf[t] /\ Disconnect(p)

SpecEquiv == InitEquiv /\ [][NextEquiv]_vars

\* The client page in a browser: the user clicks the button or presses Enter
\* with any input typed, while fetches, timers and html2canvas settle.
InitClient ==
  /\ variant = [b \in Bots |-> "puppeteer"]
  /\ InitIdle
  /\ options = [b \in Bots |-> DefaultOptions]
  /\ budget = 0
  /\ botOf = [t \in Tasks |-> t]
  /\ frame = [t \in Tasks |-> IdleFrame]

NextClient ==
  \/ \E c \in Captures, u \in TypedInputs : getScreenshot(c, u, "click")
  \/ \E c \in Captures, u \in TypedInputs : getScreenshot(c, u, "enter")
  \/ \E c \in Captures :
       \E reply \in Replies(fetchUrl(captures[c].url)) :
         getScreenshot_fetch(c, reply)
  \/ \E c \in Captures : getScreenshot_errorBody(c)
  \/ \E c \in Captures : getScreenshot_json(c)
  \/ \E c \in Captures : generateCombinedImage_delay(c)
  \/ \E c \in Captures : generateCombinedImage_html2canvas(c)

SpecClient == InitClient /\ [][NextClient]_vars

\* What an invocation of getScreenshot waits for comes about: fetch() settles
\* (the server answers or the connection fails), the body is read, the 2 s
\* timer fires and html2canvas settles; the event loop then runs the
\* continuation. Clicks and key presses are the user's and may stop.
Settles(c) ==
  /\ c \in InFlight
  /\ \/ /\ captures[c].pc = "fetch"
        /\ \E reply \in Replies(fetchUrl(captures[c].url)) :
             getScreenshot_fetch(c, reply)
     \/ getScreenshot_errorBody(c)
     \/ getScreenshot_json(c)
     \/ generateCombinedImage_delay(c)
     \/ generateCombinedImage_html2canvas(c)

\* For the question whether an invocation comes to its end the typed text
\* matters only as empty, blank or a URL.
EndingInputs == {<<>>, <<32>>, HostAB}

NextClientFair ==
  \/ \E c \in Captures, u \in EndingInputs : getScreenshot(c, u, "click")
  \/ \E c \in Captures, u \in EndingInputs : getScreenshot(c, u, "enter")
  \/ \E c \in Captures : Settles(c)

SpecClientFair ==
  /\ InitClient
  /\ [][NextClientFair]_vars
  /\ \A c \in Captures : WF_vars(Settles(c))

\* One Bot started and stopped by one caller, one call after another, with
\* the "disconnected" event of a dead browser emitted at any later time.
MaxLateCalls == 3       \* calls of startBrowser and closeBrowser

InitLate ==
  /\ InitCommon
  /\ options \in {[b \in Bots |-> o] : o \in OptionSets}
  /\ budget = MaxLateCalls
  /\ botOf = [t \in Tasks |-> 1]
  /\ frame = [t \in Tasks |->
                IF t = 1 THEN IdleFrame ELSE [IdleFrame EXCEPT !.pc = "off"]]

NextLate ==
  \/ \E t \in Tasks : CallStartBrowser(t)
  \/ \E t \in Tasks : CallCloseBrowser(t)
  \/ \E t \in Tasks : startBrowser_launch(t)
  \/ \E t \in Tasks : startBrowser_newPage(t)
  \/ \E t \in Tasks : startBrowser_setUserAgent(t)
  \/ \E t \in Tasks : startBrowser_setViewport(t)
  \/ \E t \in Tasks : enableResourceBlocking_sri(t)
  \/ \E t \in Tasks : setupResourceBlocking_route(t)
  \/ \E t \in Tasks : disableResourceBlocking_sri(t)
  \/ \E t \in Tasks : removeResourceBlocking_unroute(t)
  \/ \E t \in Tasks : closeBrowser_close(t)
  \/ \E p \in ProcIds : Crash(p)
  \/ \E p \in ProcIds : Notify(p)

SpecLate == InitLate /\ [][NextLate]_vars

\* -------------------------------------------------------------- properties
Has(lg, e) == \E i \in 1..Len(lg) : lg[i] = e

IsPrefix(a, b) == Len(a) <= Len(b) /\ SubSeq(b, 1, Len(a)) = a

ThrewEvents ==
  {"param:threw", "decode:threw", "start:threw", "navigate:threw",
   "capture:threw", "stop:threw"}

IsThrew(e) == e \in ThrewEvents

NotThrew(e) == ~IsThrew(e)

StageFailed(lg) == \E i \in 1..Len(lg) : IsThrew(lg[i])

\* The handler's log when every stage succeeded.
OkLog ==
  <<"start", "start:ok", "navigate", "navigate:ok", "capture", "capture:ok",
    "stop", "stop:ok">>

Answered(r) == req[r].st = "done"

OpenProcs(b) == {p \in ProcIds : Owner(p) = b /\ procs[p].st = "running"}

\* The URL that the handler of request r passed to setPage.
NavUrl(r) == frame[r].url

Navigated(r) == Has(log[r], "navigate")

\* C1: once a request has been answered, its Bot holds no browser or page
\* handle and every browser process launched for it is gone.
C1_NoBrowserAfterAnswer ==
  \A r \in Tasks :
    Answered(r) =>
      /\ browser[r] = Null
      /\ page[r] = Null
      /\ OpenProcs(r) = {}

\* C2: a request gets exactly one response; when a stage failed it is the
\* bare {status: false}, and no failure response carries content or detail.
C2_OneResponseBareFailure ==
  \A r \in Tasks :
    /\ Len(resp[r]) <= 1
    /\ Answered(r) <=> Len(resp[r]) = 1
    /\ Answered(r) /\ StageFailed(log[r]) => resp[r] = <<[status |-> FALSE]>>
    /\ \A i \in 1..Len(resp[r]) :
         ~resp[r][i].status => DOMAIN resp[r][i] = {"status"}

C2_Witness ==
  \E r \in Tasks :
    /\ Answered(r)
    /\ Has(log[r], "navigate:threw")
    /\ resp[r] = <<[status |-> FALSE]>>

\* C3: the handler calls start, navigate, capture, stop in that order, each
\* at most once and nothing after a failure; {status: true, content: X} is
\* sent only after stop has returned, and X is the data URI capture produced
\* from the page the request navigated.
C3_CallOrder ==
  \A r \in Tasks :
    /\ IsPrefix(SelectSeq(log[r], NotThrew), OkLog)
    /\ \A i \in 1..Len(log[r]) : IsThrew(log[r][i]) => i = Len(log[r])
    /\ \A i \in 1..Len(resp[r]) :
         resp[r][i].status =>
           /\ log[r] = OkLog
           /\ resp[r][i].content = dataUri(Png, btoa(req[r].url))

C3_Witness ==
  \E r \in Tasks :
    /\ log[r] = OkLog
    /\ resp[r] = <<[status |-> TRUE,
                    content |-> dataUri(Png, btoa(HttpPrefix \o HostAB))]>>

\* C4: a request whose path parameter is malformed base64 is answered with
\* {status: false} and leaves no browser process running.
C4_MalformedLeavesNoBrowser ==
  \A r \in Tasks :
    Answered(r) /\ req[r].param # <<>> /\ ~atob(req[r].param).ok =>
      /\ resp[r] = <<[status |-> FALSE]>>
      /\ OpenProcs(r) = {}

\* C5 as stated: the router gives a decoded URL without scheme the prefix
\* http:// before it navigates.
C5_RouterPrependsScheme ==
  \A r \in Tasks :
    Navigated(r) =>
      NavUrl(r) = IF HasScheme(atob(req[r].param).val)
                  THEN atob(req[r].param).val
                  ELSE HttpPrefix \o atob(req[r].param).val

\* C5 amended: the router navigates to exactly the decoded string; it is the
\* client page that prepends http:// to a typed URL without scheme, so a URL
\* S typed there is navigated as http://S is.
C5_ClientPrependsScheme ==
  \A r \in Tasks :
    Navigated(r) =>
      /\ NavUrl(r) = atob(req[r].param).val
      /\ req[r].src = "client" =>
           NavUrl(r) = IF HasScheme(Trim(req[r].input))
                       THEN Trim(req[r].input)
                       ELSE HttpPrefix \o Trim(req[r].input)

C5_Witness ==
  \E r \in Tasks :
    /\ Navigated(r)
    /\ req[r].src = "client"
    /\ req[r].input = HostAB
    /\ NavUrl(r) = HttpPrefix \o HostAB

\* C6: when start, navigate and capture succeeded the response is
\* {status: true, content: ...}, whatever happened during teardown.
C6_TeardownErrorKeepsSuccess ==
  \A r \in Tasks :
    /\ Answered(r)
    /\ Has(log[r], "start:ok")
    /\ Has(log[r], "navigate:ok")
    /\ Has(log[r], "capture:ok")
    => resp[r] = <<[status |-> TRUE, content |-> req[r].route]>>

C6_Witness ==
  \E r \in Tasks :
    /\ Answered(r)
    /\ frame[r].teardownErr
    /\ Len(resp[r]) = 1
    /\ resp[r][1].status

Cleared(b) ==
  browser[b] = Null /\ page[b] = Null /\ ~isInterceptionEnabled[b]

ReturnedFrom(t, op) == frame[t].pc = "returned" /\ result[t].op = op

\* closeBrowser has returned: it did not throw and the Bot is cleared.
CloseReturnsCleared ==
  \A t \in Tasks :
    ReturnedFrom(t, "closeBrowser") =>
      result[t].out = "ok" /\ Cleared(botOf[t])

\* closeBrowser called right after closeBrowser returns at once, changes
\* nothing and closes nothing.
SecondCloseIsNoOp ==
  \A t \in Tasks :
    /\ ReturnedFrom(t, "closeBrowser")
    /\ ncalls'[t] # ncalls[t]
    /\ frame'[t].op = "closeBrowser"
    => /\ frame'[t].pc = "returned"
       /\ result'[t].out = "ok"
       /\ frame'[t].closes = 0
       /\ UNCHANGED botVars

\* C7: closeBrowser never throws, whether or not close() or the removal of
\* the filter fails; after it the browser handle, the page handle and the
\* interception flag are cleared, and a second call in a row leaves that
\* state as it is and closes nothing again.
C7_CloseNeverThrowsIdempotent ==
  []CloseReturnsCleared /\ [][SecondCloseIsNoOp]_vars

C7_Witness ==
  \E t \in Tasks :
    /\ ReturnedFrom(t, "closeBrowser")
    /\ frame[t].prevOp = "closeBrowser"
    /\ frame[t].closes = 0
    /\ procs[Slot(botOf[t], 1)].st = "closed"

\* C8: when startBrowser throws after the browser process was launched, that
\* process has been closed before the error reaches the caller, and the
\* browser handle, the page handle and the interception flag are cleared.
C8_FailedStartCleansUp ==
  \A t \in Tasks :
    ReturnedFrom(t, "startBrowser") /\ result[t].out = "threw" =>
      /\ Cleared(botOf[t])
      /\ frame[t].mine # Null => procs[frame[t].mine].st # "running"

C8_Witness ==
  \E t \in Tasks :
    /\ ReturnedFrom(t, "startBrowser")
    /\ result[t].out = "threw"
    /\ frame[t].mine # Null
    /\ procs[frame[t].mine].st = "closed"

\* startBrowser called on a started Bot returns at once without error and
\* changes neither the handles, the flag, the filter nor the processes.
StartOnStartedIsNoOp ==
  \A t \in Tasks :
    /\ ncalls'[t] # ncalls[t]
    /\ frame'[t].op = "startBrowser"
    /\ browser[botOf[t]] # Null
    => /\ frame'[t].pc = "returned"
       /\ result'[t] = [op |-> "startBrowser", out |-> "ok", val |-> NoValue]
       /\ UNCHANGED <<botVars, nlaunch>>

\* C9: startBrowser on an already started session is a no-op.
C9_StartOnStartedIsNoOp == [][StartOnStartedIsNoOp]_vars

C9_Witness ==
  \E t \in Tasks :
    /\ ReturnedFrom(t, "startBrowser")
    /\ result[t].out = "ok"
    /\ frame[t].entry[1] # Null
    /\ frame[t].entry[2] # Null

\* C10: a Bot never has more than one launched browser process that has
\* not been closed.
C10_AtMostOneProcess ==
  \A b \in Bots : Cardinality(OpenProcs(b)) <= 1

\* The task is inside the catch block of startBrowser: the call will throw.
StartFailing(t) ==
  /\ frame[t].op = "startBrowser"
  /\ frame[t].onClose = "rethrow"
  /\ frame[t].pc \notin {"idle", "returned", "off"}

\* The page handle is null before any call, after a start that threw and
\* after every stop.
PageNullOutsideWindow ==
  \A t \in Tasks :
    /\ frame[t].pc = "idle" => page[botOf[t]] = Null
    /\ ReturnedFrom(t, "startBrowser") /\ result[t].out = "threw" =>
         page[botOf[t]] = Null
    /\ ReturnedFrom(t, "closeBrowser") => page[botOf[t]] = Null

\* C11 as stated: the page handle is non-null only between a successful
\* start and the next stop; it is null before any start, during and after a
\* start that ends in failure, and after every stop.
C11_PageNullDuringFailedStart ==
  /\ PageNullOutsideWindow
  /\ \A t \in Tasks : StartFailing(t) => page[botOf[t]] = Null

\* The page handle becomes non-null only when newPage() of a pending
\* startBrowser resolves.
PageSetOnlyByStart ==
  \A b \in Bots :
    page[b] = Null /\ page'[b] # Null =>
      \E t \in Tasks :
        /\ botOf[t] = b
        /\ frame[t].pc = "s_newPage"
        /\ frame[t].op = "startBrowser"

\* C11 amended: the page handle is null before any start, after a start
\* that threw and after every stop, and only a pending startBrowser makes it
\* non-null; during a start that ends in failure it is non-null from the
\* moment newPage() resolved until the close() of the cleanup has settled.
C11_PageOnlyFromStartToStop ==
  []PageNullOutsideWindow /\ [][PageSetOnlyByStart]_vars

C11_Witness ==
  \E t \in Tasks :
    /\ StartFailing(t)
    /\ frame[t].pc = "c_close"
    /\ page[botOf[t]] # Null

\* The caller of task t is outside the started window: it has made no call
\* yet, its last call was a stop or a start that threw, or the process its
\* last start launched has disconnected.
OutsideWindow(t) ==
  \/ frame[t].pc = "idle"
  \/ ReturnedFrom(t, "closeBrowser")
  \/ ReturnedFrom(t, "startBrowser") /\ result[t].out = "threw"
  \/ /\ frame[t].pc = "returned"
     /\ frame[t].mine # Null
     /\ procs[frame[t].mine].st = "crashed"

NavigateOrCapture == {"setPage", "takeScreenshot"}

FailsFastOutsideWindow ==
  \A t \in Tasks :
    /\ OutsideWindow(t)
    /\ ncalls'[t] # ncalls[t]
    /\ frame'[t].op \in NavigateOrCapture
    => /\ frame'[t].pc = "returned"
       /\ result'[t] = [op |-> frame'[t].op, out |-> "threw", val |-> NoValue]
       /\ UNCHANGED <<botVars, nlaunch>>

\* C12: setPage and takeScreenshot called before start, after stop, after a
\* failed start or after a disconnect throw at once, without a call to the
\* browser and without a change of the session state.
C12_FailFastOutsideWindow == [][FailsFastOutsideWindow]_vars

C12_Witness ==
  \E t \in Tasks :
    /\ ReturnedFrom(t, "takeScreenshot")
    /\ result[t].out = "threw"
    /\ frame[t].prevOp = "startBrowser"
    /\ frame[t].mine # Null
    /\ procs[frame[t].mine].st = "crashed"
    /\ frame[t].entry = <<Null, Null, FALSE>>

\* The process that a Bot holds in #browser dies in this step, and the
\* Bot's handles and flag are cleared in the same step.
DisconnectClears ==
  \A p \in ProcIds :
    /\ procs[p].st = "running"
    /\ procs'[p].st = "crashed"
    /\ browser[Owner(p)] = p
    => /\ browser'[Owner(p)] = Null
       /\ page'[Owner(p)] = Null
       /\ ~isInterceptionEnabled'[Owner(p)]

\* C13: a disconnection of the browser process in any state but Idle clears
\* the browser handle, the page handle and the interception flag as soon as
\* it occurs, also during a start that has not returned yet.
C13_DisconnectClearsAtOnce == [][DisconnectClears]_vars

\* The requests that the page of process p has issued.
NetOf(p) == {procs[p].net[i] : i \in 1..Len(procs[p].net)}

\* The blockResources entry for the kind of the request is true.
Blocked(b, ty) ==
  \/ ty = "image" /\ options[b].blockResources.images
  \/ ty = "stylesheet" /\ options[b].blockResources.css
  \/ ty = "font" /\ options[b].blockResources.fonts

\* C14: while the filter is installed every intercepted request gets exactly
\* one decision: abort when its kind is image, stylesheet or font and the
\* blockResources entry of that kind is true, continue otherwise; never both.
C14_OneDecisionPerRequest ==
  \A p \in ProcIds : \A e \in NetOf(p) :
    e.installed =>
      /\ e.intercepted
      /\ Len(e.calls) = 1
      /\ e.calls[1] \in {"abort", "continue"}
      /\ e.calls[1] = "abort" <=> Blocked(Owner(p), e.type)

C14_Witness ==
  \E p \in ProcIds : \E e \in NetOf(p) :
    /\ e.installed
    /\ e.type = "stylesheet"
    /\ options[Owner(p)].blockResources.css
    /\ e.calls = <<"abort">>

\* The request is not held back, or the handler let it continue.
Loads(e) == ~e.intercepted \/ e.calls = <<"continue">>

\* C15 as stated: with blockResources.images true no image request of the
\* page completes, and with blockResources.images false image requests are
\* continued.
C15_ImagesBlockedByBlockResources ==
  \A p \in ProcIds : \A e \in NetOf(p) :
    e.type = "image" =>
      IF options[Owner(p)].blockResources.images
      THEN ~Loads(e)
      ELSE Loads(e)

\* C15 amended: blockResources.images decides about image requests only when
\* the filter is installed, which needs optimizeLoad; then an image request
\* is aborted when it is true and continued when it is false.  Without
\* optimizeLoad every image request loads, whatever blockResources says.
C15_ImagesBlockedWhenFilterInstalled ==
  \A p \in ProcIds : \A e \in NetOf(p) :
    e.type = "image" =>
      /\ e.installed =>
           e.calls = IF options[Owner(p)].blockResources.images
                     THEN <<"abort">>
                     ELSE <<"continue">>
      /\ e.installed => options[Owner(p)].optimizeLoad
      /\ ~options[Owner(p)].optimizeLoad => Loads(e) /\ e.calls = <<>>

C15_Witness ==
  \E p \in ProcIds : \E e \in NetOf(p) :
    /\ e.type = "image"
    /\ e.installed
    /\ options[Owner(p)].blockResources.images
    /\ e.calls = <<"abort">>
    /\ ~Loads(e)

\* The request filter of Bot b is installed: the hook is registered on its
\* page and the interception flag is true.
Installed(b) ==
  /\ isInterceptionEnabled[b]
  /\ page[b] # Null
  /\ procs[page[b]].listener

StartReturnsInstalledIffOptimizeLoad ==
  \A t \in Tasks :
    /\ frame[t].op = "startBrowser"
    /\ frame[t].pc # "returned"
    /\ frame'[t].pc = "returned"
    /\ result'[t].out = "ok"
    => (Installed(botOf[t])' <=> options[botOf[t]].optimizeLoad)

\* C16: when startBrowser returns successfully the filter is installed if
\* and only if optimizeLoad is true; with optimizeLoad false no request is
\* ever aborted, and with optimizeLoad true and no blockResources given only
\* image requests are aborted.
C16_FilterInstalledIffOptimizeLoad ==
  /\ [][StartReturnsInstalledIffOptimizeLoad]_vars
  /\ [](\A p \in ProcIds : \A e \in NetOf(p) :
          /\ ~options[Owner(p)].optimizeLoad => e.calls = <<>>
          /\ options[Owner(p)] = Bot([optimizeLoad |-> TRUE]) =>
               ("abort" \in {e.calls[i] : i \in 1..Len(e.calls)} =>
                  e.type = "image"))

\* When close() is issued on a running process, the filter has been removed
\* from its page, unless the removal failed; a failed removal or a failed
\* close() leaves closeBrowser returning normally with the process ended.
FilterRemovedBeforeClose ==
  \A t \in Tasks :
    /\ frame[t].pc = "c_close" /\ Running(procs, frame[t].recv) =>
         \/ frame[t].teardownErr
         \/ /\ ~procs[frame[t].recv].listener
            /\ ~procs[frame[t].recv].intercept
    /\ ReturnedFrom(t, "closeBrowser") /\ frame[t].teardownErr =>
         /\ result[t].out = "ok"
         /\ frame[t].entry[1] # Null => ~Running(procs, frame[t].entry[1])

\* The handler is invoked only for requests of a running page, and not for
\* a page whose filter closeBrowser has removed.
NoHandlerCallOnClosedPage ==
  \A p \in ProcIds :
    Len(procs'[p].net) > Len(procs[p].net) =>
      LET e == procs'[p].net[Len(procs'[p].net)] IN
      /\ e.calls # <<>> => Running(procs, p)
      /\ (\E t \in Tasks : /\ frame[t].pc = "c_close"
                            /\ frame[t].recv = p
                            /\ ~frame[t].teardownErr) => e.calls = <<>>

\* C17: closeBrowser uninstalls an installed filter before it closes the
\* browser, the handler is not invoked on a closed page, and an error while
\* removing the filter is swallowed and does not keep the browser open.
C17_FilterRemovedBeforeClose ==
  []FilterRemovedBeforeClose /\ [][NoHandlerCallOnClosedPage]_vars

C17_Witness ==
  \E t \in Tasks :
    /\ frame[t].pc = "c_close"
    /\ frame[t].op = "closeBrowser"
    /\ frame[t].entry[3]
    /\ ~frame[t].teardownErr
    /\ Running(procs, frame[t].recv)
    /\ ~procs[frame[t].recv].listener
    /\ procs[frame[t].recv].net # <<>>

\* C18: takeScreenshot fails when the page is not loaded, in particular on a
\* started session on which no navigation has completed; it returns no
\* image then.
C18_CaptureNeedsLoadedPage ==
  \A t \in Tasks :
    ReturnedFrom(t, "takeScreenshot") /\ result[t].out = "ok" =>
      /\ frame[t].entry[2] # Null
      /\ procs[frame[t].entry[2]].loaded

IsDataUriOf(uri, type) == IsPrefix(DataImage \o type \o Base64Comma, uri)

\* The type that takeScreenshot(opts) hands to screenshot(): the type of
\* opts.screenshotOptions when given, else opts.type when given, else png.
PassedType(opts) ==
  IF "screenshotOptions" \in DOMAIN opts
       /\ "type" \in DOMAIN opts.screenshotOptions
  THEN opts.screenshotOptions.type
  ELSE IF "type" \in DOMAIN opts THEN opts.type ELSE Png

\* C19: a successful takeScreenshot returns data:image/<T>;base64,<data>,
\* T being the type passed to screenshot(), png when none was asked for; so
\* what it returns begins with data:image/png;base64, or
\* data:image/jpeg;base64,.
C19_DataUriNamesType ==
  \A t \in Tasks :
    ReturnedFrom(t, "takeScreenshot") /\ result[t].out = "ok" =>
      /\ IsDataUriOf(result[t].val, PassedType(frame[t].arg))
      /\ frame[t].arg = NoOptions => IsDataUriOf(result[t].val, Png)
      /\ IsDataUriOf(result[t].val, Png) \/ IsDataUriOf(result[t].val, Jpeg)
      /\ \E data \in {btoa(u) : u \in DriverUrls \cup {<<>>}} :
           result[t].val = DataImage \o PassedType(frame[t].arg)
                             \o Base64Comma \o data

C19_Witness ==
  \E t \in Tasks :
    /\ ReturnedFrom(t, "takeScreenshot")
    /\ result[t].out = "ok"
    /\ frame[t].arg = [type |-> Png, screenshotOptions |-> [type |-> Jpeg]]
    /\ result[t].val = DataImage \o Jpeg \o Base64Comma
                          \o btoa(HttpPrefix \o HostAB)

\* Task r takes a step of its handler or of its pending Bot call.
StepOf(r) == frame'[r] # frame[r] \/ req'[r] # req[r]

\* The Bots of two requests are different objects, and the response of a
\* request carries the capture of the URL that this request navigated.
OwnBotOwnCapture ==
  \A r \in Tasks :
    /\ \A q \in Tasks \ {r} : botOf[q] # botOf[r]
    /\ frame[r].mine # Null => Owner(frame[r].mine) = botOf[r]
    /\ \A i \in 1..Len(resp[r]) :
         resp[r][i].status =>
           /\ r <= MaxInFlight
           /\ resp[r][i].content = dataUri(Png, btoa(UrlOf(r)))

\* A step of one request leaves the handles, the flag and the processes of
\* every other request's Bot as they are.
LeavesOthersAlone ==
  \A r \in Tasks :
    StepOf(r) =>
      \A q \in Tasks \ {r} :
        /\ browser'[botOf[q]] = browser[botOf[q]]
        /\ page'[botOf[q]] = page[botOf[q]]
        /\ isInterceptionEnabled'[botOf[q]] = isInterceptionEnabled[botOf[q]]
        /\ \A p \in ProcIds : Owner(p) = botOf[q] => procs'[p] = procs[p]

\* C20: requests handled at the same time share no session state: each
\* one's capture is of the page it navigated itself, and the stop of one
\* neither closes nor clears the browser of another.
C20_RequestsShareNoSession ==
  []OwnBotOwnCapture /\ [][LeavesOthersAlone]_vars

C20_Witness ==
  /\ req[1].st = "stop"
  /\ frame[1].pc = "returned"
  /\ procs[frame[1].mine].st = "closed"
  /\ req[2].st = "shot"
  /\ frame[2].pc = "returned"
  /\ result[2].out = "ok"
  /\ result[2].val = dataUri(Png, btoa(UrlOf(2)))
  /\ Running(procs, frame[2].mine)

\* setPage has rejected and the handler has not resumed yet.
NavFailed(r) ==
  /\ req[r].st = "nav"
  /\ frame[r].pc = "returned"
  /\ result[r].out = "threw"

\* C21: a navigation that does not reach its wait condition does not keep
\* the request pending: the navigation timeout makes setPage reject, and the
\* request is then answered with {status: false}.
C21_NavigationTimeoutAnswersFalse ==
  \A r \in Tasks :
    /\ (req[r].st = "nav") ~> (NavFailed(r) \/ req[r].st = "shot")
    /\ NavFailed(r) ~> (resp[r] = <<[status |-> FALSE]>>)

C21_Witness ==
  \E r \in Tasks :
    /\ NavFailed(r)
    /\ resp[r] = <<>>
    /\ Running(procs, frame[r].mine)
    /\ ~procs[frame[r].mine].loaded

\* A call of task t is pending on the page.
PendingOnPage(t) == frame[t].pc \in {"n_goto", "k_shot"}

\* C22: a Bot shared by two capture pipelines does not serialize them: while
\* the navigate or capture of one is pending, the navigate and the capture
\* of the other are accepted on the same page, so that a capture issued for
\* one request can be taken of the URL of the other.
C22_SharedBotDoesNotSerialize ==
  \A t \in Tasks : \A q \in Tasks \ {t} :
    /\ PendingOnPage(t)
    /\ CanCall(q)
    /\ page[botOf[q]] # Null
    => /\ ENABLED CallSetPage(q, UrlOf(q), FALSE)
       /\ ENABLED CallTakeScreenshot(q, NoOptions)

C22_Witness ==
  \E t \in Tasks : \E q \in Tasks \ {t} :
    /\ ReturnedFrom(t, "takeScreenshot")
    /\ result[t].out = "ok"
    /\ frame[t].prevOp = "setPage"
    /\ frame[t].url = UrlOf(t)
    /\ ncalls[t] = 3
    /\ frame[q].pc = "n_goto"
    /\ frame[q].url = UrlOf(q)
    /\ result[t].val = dataUri(Png, btoa(UrlOf(q)))

\* What a caller can tell of a Bot: whether the browser handle and the page
\* handle are set, and whether the filter is enabled.
Observable(b) ==
  <<browser[b] # Null, page[b] # Null, isInterceptionEnabled[b]>>

\* Both Bots have been through the same calls, library outcomes and
\* disconnects: each has settled the call of the scenario.
SameHistory ==
  /\ scenario.k > 0
  /\ \A t \in {1, 2} :
       frame[t].pc = "returned" /\ ncalls[t] = scenario.k /\ ~Due(t)

SameOutcome ==
  /\ Observable(1) = Observable(2)
  /\ result[1] = result[2]

\* Both Bots are suspended at the same library call of the same call.
SameAwait ==
  /\ \A t \in {1, 2} : ncalls[t] = scenario.k /\ ~Due(t)
  /\ AwaitName(frame[1].pc) # "none"
  /\ AwaitName(frame[1].pc) = AwaitName(frame[2].pc)

Fails(c) ==
  /\ captures[c].pc \in {"fetch", "errorBody", "json"}
  /\ captures'[c].pc = "failed"

\* Bar, image and link hidden, href and display URL cleared, button enabled.
DisplayReset(d) ==
  /\ d.bar = "none" /\ d.img = "none" /\ d.link = "none"
  /\ d.href = Hash /\ d.displayUrl = <<>>
  /\ ~d.disabled /\ d.button = PageLoaded.button
  /\ d.statusShown = "block"

\* C24 as stated: a failed capture leaves the display reset and the
\* placeholder with the text it has on page load.
C24_FailureRestoresInitialText ==
  [][\A c \in Captures :
       Fails(c) => DisplayReset(dom') /\ dom'.status = PageLoaded.status]_vars

\* C24: a failed capture (fetch rejected, status not OK, body without an
\* image) leaves bar, image and download link hidden, href and display URL
\* cleared and the button enabled; the placeholder is shown with the error
\* text, not with the text of page load.
C24_FailureResetsDisplay ==
  [][\A c \in Captures :
       Fails(c) => /\ DisplayReset(dom')
                   /\ dom'.status = ErrorText
                   /\ dom'.status # PageLoaded.status]_vars

C24_Witness ==
  /\ captures[1].pc = "done"
  /\ captures[2].pc = "failed"
  /\ DisplayReset(dom) /\ dom.status = ErrorText

\* C25: whenever the page handle of a Bot is non-null, so is its browser
\* handle, whatever the interleaving of startBrowser, closeBrowser and
\* disconnect notifications.
C25_PageImpliesBrowser ==
  \A b \in Bots : page[b] # Null => browser[b] # Null

\* C26: the filter flag of a Bot is true only while its page handle is
\* non-null, also when a disconnect or closeBrowser falls into an await of
\* enabling or disabling the filter.
C26_FlagImpliesPage ==
  \A b \in Bots : isInterceptionEnabled[b] => page[b] # Null

\* The listener of browser p runs in this step.
Notified(p) == procs[p].handler # Null /\ procs'[p].handler = Null

\* C27: a disconnect notification clears the handles of the browser that
\* emitted it only: when the Bot holds a later browser by then, its handles
\* stay, and it is not left running without an owner.
C27_DisconnectClearsOwnBrowserOnly ==
  [][\A p \in ProcIds :
       LET b == procs[p].handler IN
       Notified(p) /\ browser[b] # Null /\ browser[b] # p
       => /\ browser'[b] = browser[b]
          /\ page'[b] = page[b]
          /\ isInterceptionEnabled'[b] = isInterceptionEnabled[b]]_vars

\* The request e of the page of process p is held back with no decision:
\* the library intercepted it, no handler was there to abort or continue it,
\* and neither has interception been switched off since, which releases the
\* requests it holds, nor has the browser ended, which ends its requests.
Paused(p, e) ==
  /\ Running(procs, p)
  /\ e.intercepted
  /\ e.calls = <<>>
  /\ Intercepts(procs, p)

\* closeBrowser is suspended in setRequestInterception(false) or in close()
\* of the browser of process p.
TearingDown(p) ==
  \E t \in Tasks : frame[t].recv = p /\ frame[t].pc \in {"d_sri", "c_close"}

LifecycleUntouched ==
  \A t \in Tasks :
    frame'[t] # frame[t] /\ frame'[t].op \in NavigateOrCapture
    => UNCHANGED <<browser, page, isInterceptionEnabled>>

\* setPage or takeScreenshot of task t has thrown.
FailedNavigateOrCapture(t) ==
  /\ frame[t].pc = "returned"
  /\ result[t].op \in NavigateOrCapture
  /\ result[t].out = "threw"

\* After a failed navigate or capture on a browser that is still alive the
\* Bot holds what it held when the call was made.
StillStartedAfterFailure ==
  \A t \in Tasks :
    /\ FailedNavigateOrCapture(t)
    /\ frame[t].entry[2] # Null
    /\ Running(procs, frame[t].entry[2])
    => /\ <<browser[botOf[t]], page[botOf[t]],
            isInterceptionEnabled[botOf[t]]>> = frame[t].entry
       /\ browser[botOf[t]] # Null

\* After a failed navigate or capture of a started session, the next
\* navigate, capture or stop is not refused: it gets to its library call.
PermittedAfterFailure ==
  \A t \in Tasks :
    /\ FailedNavigateOrCapture(t)
    /\ page[botOf[t]] # Null
    /\ ncalls'[t] # ncalls[t]
    /\ frame'[t].op \in NavigateOrCapture \cup {"closeBrowser"}
    => frame'[t].pc \in {"n_goto", "k_shot", "d_sri", "d_unroute", "c_close"}

\* C29: setPage and takeScreenshot never change browser handle, page handle
\* or filter flag, whether they return or throw; after a failed navigate or
\* capture the session is still started and the next navigate, capture or
\* stop goes ahead.
C29_NavigateAndCaptureKeepLifecycle ==
  /\ []StillStartedAfterFailure
  /\ [][LifecycleUntouched /\ PermittedAfterFailure]_vars

C29_Witness ==
  \E t \in Tasks :
    /\ FailedNavigateOrCapture(t)
    /\ result[t].op = "takeScreenshot"
    /\ frame[t].prevOp = "setPage"
    /\ frame[t].entry[2] # Null
    /\ Running(procs, frame[t].entry[2])
    /\ page[botOf[t]] = frame[t].entry[2]
    /\ isInterceptionEnabled[botOf[t]]

\* The URLs submitted so far, and the last of them.
Submitted == {c \in Captures : captures[c].url # <<>>}

Latest == CHOOSE c \in Submitted : \A d \in Submitted : d <= c

\* C30: at most one capture of the client page is in flight, and the image
\* and the address bar on display are those of the URL submitted last: the
\* response for an earlier submission never takes the place of a later one.
C30_OneCaptureLatestWins ==
  /\ Cardinality(InFlight) <= 1
  /\ dom.img = "block" =>
       /\ dom.src = dataUri(Png, btoa(fetchUrl(captures[Latest].url)))
       /\ dom.displayUrl = displayUrl(captures[Latest].url)

\* The image of the earlier submission is on display after the later
\* submission had shown its own.
EarlierOverwritesLater ==
  /\ Cardinality(Submitted) = 2
  /\ captures[1].url # captures[2].url
  /\ captures[2].pc = "done"
  /\ captures[1].pc = "delay"
  /\ dom.img = "block"
  /\ dom.src = dataUri(Png, btoa(fetchUrl(captures[1].url)))

\* The capture button is enabled and labelled as on page load.
ButtonNormal(d) == ~d.disabled /\ d.button = PageLoaded.button

\* The invocation c of getScreenshot has been made; it has come to its end.
Invoked(c) == captures[c].pc # "none"

Ended(c) == captures[c].pc \in {"empty", "failed", "done"}

\* The step in which the invocation c comes to its end.
Ends(c) == ~Ended(c) /\ Ended(c)'

\* C31: every invocation of getScreenshot comes to its end, on each of its
\* paths (empty input, failed fetch or status, response without image,
\* composite generated, composite failed), and the step that ends it leaves
\* the capture button enabled with the label "Capturar"; with no invocation
\* pending the button is enabled with that label.
C31_EveryInvocationEnablesButton ==
  /\ \A c \in Captures : Invoked(c) ~> (Ended(c) /\ ButtonNormal(dom))
  /\ [](InFlight = {} => ButtonNormal(dom))
  /\ [][\A c \in Captures : Ends(c) => ButtonNormal(dom')]_vars

\* The composite of one capture failed after another capture had run into
\* an error: both have ended and the button is as on page load.
C31_Witness ==
  /\ captures[1].pc = "failed"
  /\ captures[2].pc = "done"
  /\ dom.linkText = "Descargar (solo captura)"
  /\ ButtonNormal(dom)

\* const encodedUrl = btoa(fetchUrl): what the page puts into the path of
\* its POST for the typed URL.
encodedUrl(urlWebsite) == btoa(fetchUrl(urlWebsite))

\* The response of invocation c carries an image and the page shows it.
Shows(c) == captures[c].pc = "json" /\ captures'[c].pc = "delay"

\* C32: when a capture succeeds, the text put into the simulated address
\* bar is the URL that was encoded and sent to the server, and the image
\* under it is the server's capture of that URL, for inputs with a scheme
\* and without one.
C32_AddressBarShowsSentUrl ==
  [][\A c \in Captures :
       Shows(c) => /\ btoa(dom'.displayUrl) = encodedUrl(captures[c].url)
                   /\ dom'.src = dataUri(Png, btoa(dom'.displayUrl))]_vars

\* A scheme-less input was captured: the address bar says https, the URL
\* sent and captured was the http one.
AddressBarDiffersFromSentUrl ==
  \E c \in Captures :
    /\ captures[c].pc = "delay"
    /\ captures[c].url = HostAB
    /\ dom.bar = "flex"
    /\ dom.displayUrl = HttpsPrefix \o HostAB
    /\ dom.src = dataUri(Png, btoa(HttpPrefix \o HostAB))

====
